---- MODULE Spec2Model ----
(***************************************************************************)
(* Identity and access control of the Awadh Dairy application: PIN         *)
(* verification with brute-force lockout, the customer login handler with  *)
(* its reconciliation of the hosted auth store, row-level security on the  *)
(* profile and role tables, and the administrative lifecycle operations.   *)
(*                                                                         *)
(* Tables are sets of rows.  Columns that no code path ever reads          *)
(* (created_at, updated_at, last_attempt, last_login, full_name) are left  *)
(* out.  A SQL NULL is the value NullHash / NullTime / NullText of the     *)
(* column's type.                                                          *)
(***************************************************************************)
EXTENDS Integers, Sequences, FiniteSets, TLC

\* ---------------------------------------------------------------- bounds
MaxTime == 15

NumSalts == 1

\* ------------------------------------------------------- program constants
\* INTERVAL '15 minutes'
LockoutMinutes == 15

\* WHEN auth_attempts.failed_count >= 4
LockoutThreshold == 4

\* /^\d{6}$/
PinLength == 6

NullTime == -1

NullText == "NULL"

NullHash == [null |-> TRUE]

\* ------------------------------------------------------------ value sets
Phones == {"p1", "p2"}

UserIds == {"u1", "u2", "u3"}

CustomerIds == {"c1", "c2", "c3"}

PinA == <<1, 2, 3, 4, 5, 6>>

PinB == <<0, 0, 0, 0, 0, 0>>

PinShort == <<1, 2, 3, 4, 5>>

Pins == {PinA, PinB}

PinInputs == Pins \cup {PinShort}

Roles == {"super_admin", "manager", "accountant", "delivery_staff",
          "farm_worker", "vet_staff", "auditor"}

Salts == 1..NumSalts

\* -------------------------------------------------------------- hashing
\* The regular expression ^\d{6}$ : exactly six characters, each a digit.
IsSixDigits(pin) == Len(pin) = PinLength /\ \A i \in 1..Len(pin) : pin[i] \in 0..9

RECURSIVE PinValue(_)
\* The text of a PIN as a number that keeps its length and leading zeros.
PinValue(pin) == IF pin = <<>> THEN 0 ELSE (pin[Len(pin)] + 1) + 11 * PinValue(SubSeq(pin, 1, Len(pin) - 1))

\* crypt(pin, salt): the digest depends on the salt and on every character of
\* the PIN; the salt is stored in the digest text.  Collisions of the
\* blowfish digest are not modelled.
crypt(pin, salt) == [salt |-> salt, digest |-> salt * 100000000 + PinValue(pin)]

\* pin_hash = crypt(_pin, pin_hash): a NULL hash compares as NULL, never true.
PinMatches(pin, pin_hash) == pin_hash # NullHash /\ pin_hash = crypt(pin, pin_hash.salt)

\* The synthesized address of an identity: `${phone}@awadhdairy.com` for staff,
\* `customer_${phone}@awadhdairy.com` for customers.
StaffEmail(phone) == [kind |-> "staff", phone |-> phone]

CustomerEmail(phone) == [kind |-> "customer", phone |-> phone]

\* ---------------------------------------------------------------- state
VARIABLES now, auth_users, profiles, user_roles, customers, customer_accounts,
          auth_attempts, customer_auth_attempts, last, requests

vars == <<now, auth_users, profiles, user_roles, customers, customer_accounts,
          auth_attempts, customer_auth_attempts, last, requests>>

\* The verification requests that run concurrently, each with its position in
\* verify_pin and the values of its local variables.
RequestIds == {"r1", "r2"}

IdleRequest == [pc |-> "idle", phone |-> NullText, pin |-> <<>>, locked_until |-> NullTime,
                failed_count |-> 0, user_id |-> NullText]

NoRequests == [r \in RequestIds |-> IdleRequest]

NoResponse == [op |-> "none", actor |-> NullText, phone |-> NullText, pin |-> <<>>,
               target |-> NullText, result |-> "none", id |-> NullText, approved |-> FALSE,
               count |-> 0]

\* What a request returned, with the request it answers.  count is the
\* failed_count a verification function read from the ledger (0 if no row).
Response(op, actor, phone, pin, target, result, id, approved, count) ==
    [op |-> op, actor |-> actor, phone |-> phone, pin |-> pin, target |-> target,
     result |-> result, id |-> id, approved |-> approved, count |-> count]

\* ------------------------------------------------------- lockout ledger
AttemptRow(attempts, phone) == {a \in attempts : a.phone = phone}

\* SELECT failed_count INTO _failed_count ... WHERE phone = _phone
PriorCount(attempts, phone) ==
    IF AttemptRow(attempts, phone) = {} THEN 0
    ELSE (CHOOSE a \in AttemptRow(attempts, phone) : TRUE).failed_count

\* Variant of IsLocked that lets a lockout go one minute before its expiry.
IsLockedEndsEarly(attempts, phone) ==
    \E a \in AttemptRow(attempts, phone) : a.locked_until # NullTime /\ a.locked_until > now + 1

\* IF _locked_until IS NOT NULL AND _locked_until > NOW()
IsLocked(attempts, phone) ==
    \E a \in AttemptRow(attempts, phone) : a.locked_until # NullTime /\ a.locked_until > now

\* Variant of RecordFailure whose CASE reads the count after the increment.
RecordFailureNewCount(attempts, phone) ==
    IF AttemptRow(attempts, phone) = {}
    THEN attempts \cup {[phone |-> phone, failed_count |-> 1, locked_until |-> NullTime]}
    ELSE {IF a.phone = phone
          THEN [phone |-> phone, failed_count |-> a.failed_count + 1,
                locked_until |-> IF a.failed_count + 1 >= LockoutThreshold
                                 THEN now + LockoutMinutes ELSE NullTime]
          ELSE a : a \in attempts}

\* Variant of RecordFailure whose lockout starts one failure later.
RecordFailureLocksLate(attempts, phone) ==
    IF AttemptRow(attempts, phone) = {}
    THEN attempts \cup {[phone |-> phone, failed_count |-> 1, locked_until |-> NullTime]}
    ELSE {IF a.phone = phone
          THEN [phone |-> phone, failed_count |-> a.failed_count + 1,
                locked_until |-> IF a.failed_count >= LockoutThreshold + 1
                                 THEN now + LockoutMinutes ELSE NullTime]
          ELSE a : a \in attempts}

\* INSERT ... VALUES (_phone, 1, NOW()) ON CONFLICT (phone) DO UPDATE SET
\*   failed_count = failed_count + 1,
\*   locked_until = CASE WHEN failed_count >= 4 THEN NOW() + 15 min ELSE NULL END
\* (the right-hand sides read the row as it was before the update).
RecordFailure(attempts, phone) ==
    IF AttemptRow(attempts, phone) = {}
    THEN attempts \cup {[phone |-> phone, failed_count |-> 1, locked_until |-> NullTime]}
    ELSE {IF a.phone = phone
          THEN [phone |-> phone, failed_count |-> a.failed_count + 1,
                locked_until |-> IF a.failed_count >= LockoutThreshold
                                 THEN now + LockoutMinutes ELSE NullTime]
          ELSE a : a \in attempts}

\* Variant of RecordSuccess that resets nothing.
RecordSuccessKeepsRow(attempts, phone) == attempts

\* DELETE FROM auth_attempts WHERE phone = _phone
RecordSuccess(attempts, phone) == attempts \ AttemptRow(attempts, phone)

\* ------------------------------------------------------------------ time
\* The clock is sampled so that both sides of a lockout expiry are visited:
\* a lockout set at time 0 is still running at 7 + 7 and is over at 7 + 8.
TickSteps == {LockoutMinutes \div 2, LockoutMinutes - LockoutMinutes \div 2}

Tick ==
    /\ \E d \in TickSteps :
          /\ now + d <= MaxTime
          /\ now' = now + d
    /\ UNCHANGED <<auth_users, profiles, user_roles, customers, customer_accounts,
                   auth_attempts, customer_auth_attempts, last, requests>>

\* ----------------------------------------------------- staff verification
\* SELECT id FROM profiles WHERE phone = _phone AND pin_hash = crypt(_pin, pin_hash)
StaffMatch(phone, pin) == {p \in profiles : p.phone = phone /\ PinMatches(pin, p.pin_hash)}

verify_pin(phone, pin) ==
    /\ IF IsLocked(auth_attempts, phone)
       THEN /\ last' = Response("verify_pin", NullText, phone, pin, NullText, "AccountLocked", NullText, FALSE,
                                 PriorCount(auth_attempts, phone))
            /\ UNCHANGED auth_attempts
       ELSE IF StaffMatch(phone, pin) = {}
       THEN /\ auth_attempts' = RecordFailure(auth_attempts, phone)
            /\ last' = Response("verify_pin", NullText, phone, pin, NullText, "InvalidCredentials", NullText, FALSE,
                                 PriorCount(auth_attempts, phone))
       ELSE /\ auth_attempts' = RecordSuccess(auth_attempts, phone)
            /\ \E p \in StaffMatch(phone, pin) :
                  last' = Response("verify_pin", NullText, phone, pin, NullText, "Resolved", p.id, FALSE,
                                  PriorCount(auth_attempts, phone))
    /\ UNCHANGED <<now, auth_users, profiles, user_roles, customers, customer_accounts,
                   customer_auth_attempts>>

VerifyPin == \E phone \in Phones, pin \in Pins : verify_pin(phone, pin) /\ UNCHANGED requests

\* verify_pin statement by statement, for requests that run concurrently.
\* Each call is one transaction at READ COMMITTED: every statement sees the
\* rows as they are when it runs, and the transaction commits right after its
\* single write.  A request is short against the clock's steps, so NOW() is
\* now for all of its statements.
\* The concurrent requests are all for the phone of the super admin.
RacePhones == {"p1"}

\* A client calls verify_pin(_phone, _pin).
CallVerifyPin ==
    /\ \E r \in RequestIds, phone \in RacePhones, pin \in Pins :
          /\ requests[r].pc \in {"idle", "done"}
          /\ requests' = [requests EXCEPT ![r] = [IdleRequest EXCEPT !.pc = "check", !.phone = phone, !.pin = pin]]
    /\ UNCHANGED <<now, auth_users, profiles, user_roles, customers, customer_accounts,
                   auth_attempts, customer_auth_attempts, last>>

\* SELECT locked_until, failed_count INTO _locked_until, _failed_count ...;
\* IF _locked_until IS NOT NULL AND _locked_until > NOW() THEN RAISE EXCEPTION
ReadLockout ==
    /\ \E r \in RequestIds :
          /\ requests[r].pc = "check"
          /\ IF IsLocked(auth_attempts, requests[r].phone)
             THEN /\ requests' = [requests EXCEPT ![r].pc = "done"]
                  /\ last' = Response("verify_pin", r, requests[r].phone, requests[r].pin, NullText,
                                      "AccountLocked", NullText, FALSE, PriorCount(auth_attempts, requests[r].phone))
             ELSE /\ requests' = [requests EXCEPT ![r].pc = "verify",
                                       ![r].failed_count = PriorCount(auth_attempts, requests[r].phone),
                                       ![r].locked_until =
                                           IF AttemptRow(auth_attempts, requests[r].phone) = {} THEN NullTime
                                           ELSE (CHOOSE a \in AttemptRow(auth_attempts, requests[r].phone) : TRUE).locked_until]
                  /\ UNCHANGED last
    /\ UNCHANGED <<now, auth_users, profiles, user_roles, customers, customer_accounts,
                   auth_attempts, customer_auth_attempts>>

\* SELECT id INTO _user_id FROM profiles WHERE phone = _phone AND pin_hash = crypt(_pin, pin_hash)
ComparePin ==
    /\ \E r \in RequestIds :
          /\ requests[r].pc = "verify"
          /\ \E id \in IF StaffMatch(requests[r].phone, requests[r].pin) = {} THEN {NullText}
                        ELSE {p.id : p \in StaffMatch(requests[r].phone, requests[r].pin)} :
                requests' = [requests EXCEPT ![r].pc = "record", ![r].user_id = id]
    /\ UNCHANGED <<now, auth_users, profiles, user_roles, customers, customer_accounts,
                   auth_attempts, customer_auth_attempts, last>>

\* Variant of UpsertTable in which the upsert works on the row as request r
\* read it in its first statement.
UpsertTableAsRead(r) ==
    (auth_attempts \ AttemptRow(auth_attempts, requests[r].phone))
        \cup (IF requests[r].failed_count = 0 THEN {}
              ELSE {[phone |-> requests[r].phone, failed_count |-> requests[r].failed_count,
                     locked_until |-> requests[r].locked_until]})

\* The table the INSERT ... ON CONFLICT DO UPDATE of request r works on: the
\* rows as they are when the statement runs (a conflicting row is locked and
\* read in its latest version).
UpsertTable(r) == auth_attempts

\* IF _user_id IS NULL THEN INSERT ... ON CONFLICT DO UPDATE ...; RETURN NULL
\* ELSE DELETE FROM auth_attempts WHERE phone = _phone; RETURN _user_id
RecordAttempt ==
    /\ \E r \in RequestIds :
          /\ requests[r].pc = "record"
          /\ requests' = [requests EXCEPT ![r].pc = "done"]
          /\ auth_attempts' = IF requests[r].user_id = NullText
                              THEN RecordFailure(UpsertTable(r), requests[r].phone)
                              ELSE RecordSuccess(auth_attempts, requests[r].phone)
          /\ last' = Response("verify_pin", r, requests[r].phone, requests[r].pin, NullText,
                              IF requests[r].user_id = NullText THEN "InvalidCredentials" ELSE "Resolved",
                              requests[r].user_id, FALSE, PriorCount(auth_attempts, requests[r].phone))
    /\ UNCHANGED <<now, auth_users, profiles, user_roles, customers, customer_accounts,
                   customer_auth_attempts>>

\* The clock steps while no request is running.
TickIdle == Tick /\ \A r \in RequestIds : requests[r].pc \in {"idle", "done"}

\* verify_pin of create_user_functions.sql: RETURN QUERY of the active profiles
\* that match phone and PIN; it keeps no ledger and raises nothing.
ActiveStaffMatch(phone, pin) == {p \in StaffMatch(phone, pin) : p.is_active}

verify_pin_active(phone, pin) ==
    /\ IF ActiveStaffMatch(phone, pin) = {}
       THEN last' = Response("verify_pin_active", NullText, phone, pin, NullText, "NoRows", NullText, FALSE, 0)
       ELSE \E p \in ActiveStaffMatch(phone, pin) :
               last' = Response("verify_pin_active", NullText, phone, pin, NullText, "Resolved", p.id, FALSE, 0)
    /\ UNCHANGED <<now, auth_users, profiles, user_roles, customers, customer_accounts,
                   auth_attempts, customer_auth_attempts>>

VerifyPinActive == \E phone \in Phones, pin \in Pins : verify_pin_active(phone, pin) /\ UNCHANGED requests

\* -------------------------------------------------- customer verification
\* SELECT customer_id, user_id, is_approved FROM customer_accounts
\*   WHERE phone = _phone AND pin_hash = crypt(_pin, pin_hash)
CustomerMatch(phone, pin) == {c \in customer_accounts : c.phone = phone /\ PinMatches(pin, c.pin_hash)}

\* Variant of VerifyCustomerOutcome without the test of the lockout.
VerifyCustomerOutcomeUnlocked(phone, pin) ==
    IF CustomerMatch(phone, pin) = {} THEN "InvalidCredentials" ELSE "Verified"

\* The outcome of verify_customer_pin: "AccountLocked" (RAISE EXCEPTION),
\* "InvalidCredentials" (no row returned) or "Verified" (the matching row).
VerifyCustomerOutcome(phone, pin) ==
    IF IsLocked(customer_auth_attempts, phone) THEN "AccountLocked"
    ELSE IF CustomerMatch(phone, pin) = {} THEN "InvalidCredentials"
    ELSE "Verified"

\* Variant of VerifyCustomerLedger that counts failures of registered phones only.
VerifyCustomerLedgerKnownOnly(phone, pin) ==
    IF IsLocked(customer_auth_attempts, phone) THEN customer_auth_attempts
    ELSE IF CustomerMatch(phone, pin) = {}
    THEN IF \E c \in customer_accounts : c.phone = phone
         THEN RecordFailure(customer_auth_attempts, phone)
         ELSE customer_auth_attempts
    ELSE RecordSuccess(customer_auth_attempts, phone)

\* The lockout ledger after verify_customer_pin.
VerifyCustomerLedger(phone, pin) ==
    IF IsLocked(customer_auth_attempts, phone) THEN customer_auth_attempts
    ELSE IF CustomerMatch(phone, pin) = {} THEN RecordFailure(customer_auth_attempts, phone)
    ELSE RecordSuccess(customer_auth_attempts, phone)

verify_customer_pin(phone, pin) ==
    /\ customer_auth_attempts' = VerifyCustomerLedger(phone, pin)
    /\ IF VerifyCustomerOutcome(phone, pin) = "Verified"
       THEN \E c \in CustomerMatch(phone, pin) :
               last' = Response("verify_customer_pin", NullText, phone, pin, c.customer_id,
                                "Verified", c.user_id, c.is_approved,
                                PriorCount(customer_auth_attempts, phone))
       ELSE last' = Response("verify_customer_pin", NullText, phone, pin, NullText,
                             VerifyCustomerOutcome(phone, pin), NullText, FALSE,
                             PriorCount(customer_auth_attempts, phone))
    /\ UNCHANGED <<now, auth_users, profiles, user_roles, customers, customer_accounts,
                   auth_attempts>>

VerifyCustomerPin == \E phone \in Phones, pin \in Pins : verify_customer_pin(phone, pin) /\ UNCHANGED requests

\* ------------------------------------------------- hosted auth store
\* The tables a request handler reads and writes, as one value.
Db == [auth_users |-> auth_users, profiles |-> profiles, user_roles |-> user_roles,
       customer_accounts |-> customer_accounts]

FreeIds(db) == UserIds \ ({u.id : u \in db.auth_users} \cup {p.id : p \in db.profiles}
                           \cup {r.user_id : r \in db.user_roles})

\* The trigger on_auth_user_created: a profile row with role farm_worker, the
\* phone of the metadata and no PIN hash (the metadata carries no pin), and a
\* user_roles row farm_worker.  profiles.phone is UNIQUE.
handle_new_user_ok(db, phone) == \A p \in db.profiles : p.phone # phone

handle_new_user(db, id, phone) ==
    [db EXCEPT !.profiles = @ \cup {[id |-> id, phone |-> phone, pin_hash |-> NullHash,
                                      role |-> "farm_worker", is_active |-> TRUE]},
               !.user_roles = @ \cup {[user_id |-> id, role |-> "farm_worker"]}]

\* auth.admin.createUser succeeds when the collaborator answers, the address
\* is not registered yet and the trigger's inserts go through.
CreateUserOk(db, email, fault) ==
    /\ ~fault
    /\ FreeIds(db) # {}
    /\ \A u \in db.auth_users : u.email # email
    /\ handle_new_user_ok(db, email.phone)

\* gen_random_uuid(): some identifier that is not in use.
NewUserId(db) == CHOOSE id \in FreeIds(db) : TRUE

CreateUser(db, email, password) ==
    handle_new_user([db EXCEPT !.auth_users = @ \cup {[id |-> NewUserId(db), email |-> email,
                                                        password |-> password]}],
                    NewUserId(db), email.phone)

\* auth.signInWithPassword
SignInOk(db, email, password, fault) ==
    ~fault /\ \E u \in db.auth_users : u.email = email /\ u.password = password

\* auth.admin.updateUserById(id, {password})
UpdatePassword(db, id, password) ==
    [db EXCEPT !.auth_users = {IF u.id = id THEN [u EXCEPT !.password = password] ELSE u : u \in @}]

\* ---------------------------------------------------------- customer login
ExternalCalls == {"generateLink", "createUser", "signIn", "listUsers", "updateUser", "retrySignIn"}

\* The calls of one request that the collaborator fails: none, one, or all.
FaultSets == {{}} \cup {{c} : c \in ExternalCalls} \cup {ExternalCalls}

\* /^\d{10}$/ on the phone: the phones of the model are well-formed, "short" is not.
IsTenDigits(phone) == phone \in Phones

\* Variant of LinkSaysUserNotFound that does not look for the identity.
LinkSaysUserNotFoundAlways(db, email, faults) == "generateLink" \notin faults

\* if (signInError.message.includes('User not found')) after generateLink
LinkSaysUserNotFound(db, email, faults) ==
    "generateLink" \notin faults /\ \A u \in db.auth_users : u.email # email

\* The store after the provisioning step of login (customer-auth.ts 158-184),
\* for the verified account acct.
LoginProvision(db, acct, email, pin, faults) ==
    IF LinkSaysUserNotFound(db, email, faults) /\ CreateUserOk(db, email, "createUser" \in faults)
    THEN [CreateUser(db, email, pin) EXCEPT !.customer_accounts =
             {IF c.customer_id = acct.customer_id THEN [c EXCEPT !.user_id = NewUserId(db)] ELSE c : c \in @}]
    ELSE db

LoginProvisionFailed(db, email, faults) ==
    LinkSaysUserNotFound(db, email, faults) /\ ~CreateUserOk(db, email, "createUser" \in faults)

\* The store after the password repair (customer-auth.ts 197-206).
LoginRepair(db, email, pin, faults) ==
    IF "listUsers" \notin faults /\ "updateUser" \notin faults
    THEN {UpdatePassword(db, u.id, pin) : u \in {x \in db.auth_users : x.email = email}}
    ELSE {db}

\* The calls of createUser, updateUserById and signInWithPassword one login
\* request has made.
LoginCalls(createUser, updateUser, signIn) ==
    [createUser |-> createUser, updateUser |-> updateUser, signIn |-> signIn]

\* createUser is called once when generateLink said 'User not found'.
ProvisionCalls(db, email, faults) == IF LinkSaysUserNotFound(db, email, faults) THEN 1 ELSE 0

\* Variant of RepairCalls for a handler that repairs and retries a second time.
RepairCallsTwice(provisioned) == LoginCalls(provisioned, 2, 3)

\* The calls of a request that went through the password repair: one
\* updateUserById, and the second signInWithPassword.
RepairCalls(provisioned) == LoginCalls(provisioned, 1, 2)

\* The reconciliation of login for a verified, approved account: the final
\* store, the result, and the calls made to the collaborator.
LoginReconcile(db, acct, email, pin, faults) ==
    IF LoginProvisionFailed(db, email, faults)
    THEN [db |-> db, result |-> "AuthenticationFailed", calls |-> LoginCalls(1, 0, 0)]
    ELSE LET d1 == LoginProvision(db, acct, email, pin, faults)
             provisioned == ProvisionCalls(db, email, faults) IN
         IF SignInOk(d1, email, pin, "signIn" \in faults)
         THEN [db |-> d1, result |-> "Session", calls |-> LoginCalls(provisioned, 0, 1)]
         ELSE IF "listUsers" \in faults \/ \A u \in d1.auth_users : u.email # email
         THEN [db |-> d1, result |-> "AuthenticationFailed", calls |-> LoginCalls(provisioned, 0, 1)]
         ELSE LET d2 == CHOOSE d \in LoginRepair(d1, email, pin, faults) : TRUE IN
              IF SignInOk(d2, email, pin, "retrySignIn" \in faults)
              THEN [db |-> d2, result |-> "Session", calls |-> RepairCalls(provisioned)]
              ELSE [db |-> d2, result |-> "AuthenticationFailed", calls |-> RepairCalls(provisioned)]

\* The response of a login that reached the collaborator, with the calls the
\* collaborator failed and the calls the handler made.
LoginResponse(phone, pin, target, result, faults, calls) ==
    [op |-> "customer_login", actor |-> NullText, phone |-> phone, pin |-> pin, target |-> target,
     result |-> result, id |-> NullText, approved |-> TRUE, count |-> 0,
     faults |-> faults, calls |-> calls]

\* Variant of IsApproved that reads the approval_status column.
IsApprovedByStatus(acct) == acct.approval_status = "approved"

\* if (!account.is_approved)
IsApproved(acct) == acct.is_approved

\* The handler of action 'login' (customer-auth.ts 125-233).  The collaborator's
\* failures are drawn only where the handler reaches the collaborator.
customer_login(phone, pin) ==
    IF ~IsTenDigits(phone) \/ ~IsSixDigits(pin)
    THEN /\ last' = Response("customer_login", NullText, phone, pin, NullText, "ValidationError", NullText, FALSE, 0)
         /\ UNCHANGED <<now, auth_users, profiles, user_roles, customers, customer_accounts,
                        auth_attempts, customer_auth_attempts>>
    ELSE /\ customer_auth_attempts' = VerifyCustomerLedger(phone, pin)
         /\ IF VerifyCustomerOutcome(phone, pin) # "Verified"
            THEN /\ last' = Response("customer_login", NullText, phone, pin, NullText,
                                     VerifyCustomerOutcome(phone, pin), NullText, FALSE, 0)
                 /\ UNCHANGED <<auth_users, profiles, user_roles, customer_accounts>>
            ELSE \E acct \in CustomerMatch(phone, pin) :
                    IF ~IsApproved(acct)
                    THEN /\ last' = Response("customer_login", NullText, phone, pin, acct.customer_id,
                                             "PendingApproval", NullText, FALSE, 0)
                         /\ UNCHANGED <<auth_users, profiles, user_roles, customer_accounts>>
                    ELSE \E faults \in FaultSets :
                         LET r == LoginReconcile(Db, acct, CustomerEmail(phone), pin, faults) IN
                         /\ auth_users' = r.db.auth_users
                         /\ profiles' = r.db.profiles
                         /\ user_roles' = r.db.user_roles
                         /\ customer_accounts' = r.db.customer_accounts
                         /\ last' = LoginResponse(phone, pin, acct.customer_id, r.result, faults, r.calls)
         /\ UNCHANGED <<now, customers, auth_attempts>>

\* auth.signUp(email, password) as the customer's client calls it: it can
\* fail; for a new address it creates the identity (the trigger runs) and
\* returns a session, or none when the address must be confirmed first; for
\* a registered address it returns no error and no session.
SignUpOutcomes(db, email) ==
    {"error"} \cup (IF \E u \in db.auth_users : u.email = email THEN {"no_session"}
                    ELSE IF CreateUserOk(db, email, FALSE) THEN {"created_session", "created_no_session"}
                    ELSE {})

\* CustomerAuthProvider.login (unnamed/part_001 283-352): verify_customer_pin,
\* the approval, signInWithPassword, and signUp when the sign-in failed.  The
\* id of the response is the identity of the session the client holds
\* afterwards, or NULL.
client_login(phone, pin) ==
    /\ customer_auth_attempts' = VerifyCustomerLedger(phone, pin)
    /\ IF VerifyCustomerOutcome(phone, pin) # "Verified"
       THEN /\ last' = Response("client_login", NullText, phone, pin, NullText,
                                VerifyCustomerOutcome(phone, pin), NullText, FALSE, 0)
            /\ UNCHANGED <<auth_users, profiles, user_roles>>
       ELSE \E acct \in CustomerMatch(phone, pin) :
               IF ~IsApproved(acct)
               THEN /\ last' = Response("client_login", NullText, phone, pin, acct.customer_id,
                                        "PendingApproval", NullText, FALSE, 0)
                    /\ UNCHANGED <<auth_users, profiles, user_roles>>
               ELSE \E fault \in BOOLEAN :
                    IF SignInOk(Db, CustomerEmail(phone), pin, fault)
                    THEN /\ \E u \in auth_users :
                               /\ u.email = CustomerEmail(phone)
                               /\ last' = Response("client_login", NullText, phone, pin, acct.customer_id,
                                                   "Success", u.id, TRUE, 0)
                         /\ UNCHANGED <<auth_users, profiles, user_roles>>
                    ELSE \E outcome \in SignUpOutcomes(Db, CustomerEmail(phone)) :
                         LET created == CreateUser(Db, CustomerEmail(phone), pin) IN
                         /\ IF outcome \in {"created_session", "created_no_session"}
                            THEN /\ auth_users' = created.auth_users
                                 /\ profiles' = created.profiles
                                 /\ user_roles' = created.user_roles
                            ELSE UNCHANGED <<auth_users, profiles, user_roles>>
                         /\ last' = Response("client_login", NullText, phone, pin, acct.customer_id,
                                             IF outcome = "error" THEN "LoginFailed" ELSE "Success",
                                             IF outcome = "created_session" THEN NewUserId(Db) ELSE NullText,
                                             TRUE, 0)
    /\ UNCHANGED <<now, customers, customer_accounts, auth_attempts>>

ClientLogin == \E phone \in Phones, pin \in Pins : client_login(phone, pin) /\ UNCHANGED requests

\* Login requests with well-formed input.
CustomerLogin == \E phone \in Phones, pin \in Pins : customer_login(phone, pin) /\ UNCHANGED requests

\* Login requests with any input, malformed phone or PIN included.
CustomerLoginAnyInput == \E phone \in Phones \cup {"short"}, pin \in PinInputs : customer_login(phone, pin) /\ UNCHANGED requests

\* ---------------------------------------------------- customer registration
\* A row of customers carries the columns that have no default and may be
\* NULL (email, address, area, route_id, notes) as the one column email.
\* "_customer IS NOT NULL" on the row variable of SELECT * INTO _customer:
\* the test of a row value is true only when every column of it is not null.
RowIsNotNull(row) == row.email # NullText

\* SELECT * INTO _customer FROM customers WHERE phone = _phone AND is_active = true
ActiveCustomers(phone) == {c \in customers : c.phone = phone /\ c.is_active}

FreeCustomerIds == CustomerIds \ {c.id : c \in customers}

\* gen_random_uuid() for the new row of customers.
NewCustomerId == CHOOSE id \in FreeCustomerIds : TRUE

\* IF _customer IS NOT NULL THEN (auto-approve), for the row found.
RegisterApproves(found) == RowIsNotNull(found)

\* The row of customer_accounts that register_customer_account inserts.
NewAccount(customer_id, phone, pin, salt, approved) ==
    [customer_id |-> customer_id, phone |-> phone, pin_hash |-> crypt(pin, salt), is_approved |-> approved,
     approval_status |-> IF approved THEN "approved" ELSE "pending", user_id |-> NullText]

\* The handler of action 'register' (customer-auth.ts 74-123) around
\* register_customer_account.  A phone that has an account is answered by the
\* function's duplicate check or, when that check misses the row because one
\* of its columns is NULL, by the UNIQUE constraint on phone; either way
\* nothing is written.  fault: the collaborator fails createUser.
customer_register(phone, pin, fault) ==
    IF ~IsTenDigits(phone) \/ ~IsSixDigits(pin)
    THEN /\ last' = Response("customer_register", NullText, phone, pin, NullText, "ValidationError", NullText, FALSE, 0)
         /\ UNCHANGED <<now, auth_users, profiles, user_roles, customers, customer_accounts,
                        auth_attempts, customer_auth_attempts>>
    ELSE IF \E a \in customer_accounts : a.phone = phone
    THEN /\ last' = Response("customer_register", NullText, phone, pin, NullText, "AccountExists", NullText, FALSE, 0)
         /\ UNCHANGED <<now, auth_users, profiles, user_roles, customers, customer_accounts,
                        auth_attempts, customer_auth_attempts>>
    ELSE /\ \E salt \in Salts :
            \/ \E found \in ActiveCustomers(phone) :
                  /\ RegisterApproves(found)
                  /\ \A a \in customer_accounts : a.customer_id # found.id
                  /\ LET acct == NewAccount(found.id, phone, pin, salt, TRUE)
                         d0 == [Db EXCEPT !.customer_accounts = @ \cup {acct}]
                     IN  IF CreateUserOk(d0, CustomerEmail(phone), fault)
                         THEN LET d1 == CreateUser(d0, CustomerEmail(phone), pin) IN
                              /\ auth_users' = d1.auth_users
                              /\ profiles' = d1.profiles
                              /\ user_roles' = d1.user_roles
                              /\ customer_accounts' = (customer_accounts \cup
                                                         {[acct EXCEPT !.user_id = NewUserId(d0)]})
                              /\ last' = Response("customer_register", NullText, phone, pin, found.id,
                                                  "Registered", NewUserId(d0), TRUE, 0)
                         ELSE /\ UNCHANGED <<auth_users, profiles, user_roles, customer_accounts>>
                              /\ last' = Response("customer_register", NullText, phone, pin, found.id,
                                                  "AuthenticationFailed", NullText, TRUE, 0)
                  /\ UNCHANGED customers
            \/ /\ \A found \in ActiveCustomers(phone) : ~RegisterApproves(found)
               /\ FreeCustomerIds # {}
               /\ customers' = customers \cup {[id |-> NewCustomerId, phone |-> phone, is_active |-> FALSE,
                                                 email |-> NullText]}
               /\ customer_accounts' = customer_accounts
                                          \cup {NewAccount(NewCustomerId, phone, pin, salt, FALSE)}
               /\ last' = Response("customer_register", NullText, phone, pin, NewCustomerId,
                                   "Registered", NullText, FALSE, 0)
               /\ UNCHANGED <<auth_users, profiles, user_roles>>
         /\ UNCHANGED <<now, auth_attempts, customer_auth_attempts>>

CustomerRegister ==
    \E phone \in Phones \cup {"short"}, pin \in PinInputs, fault \in BOOLEAN : customer_register(phone, pin, fault) /\ UNCHANGED requests

\* -------------------------------------------------- roles and sessions
\* auth.uid() of a request: any identity of the hosted auth store can hold a
\* session.
Sessions == {u.id : u \in auth_users}

\* has_role(_user_id, _role): EXISTS (SELECT 1 FROM user_roles WHERE ...)
has_role(user_id, role) == \E r \in user_roles : r.user_id = user_id /\ r.role = role

\* SELECT role FROM user_roles WHERE user_id = ... (user_id is UNIQUE)
RoleOf(user_id) ==
    IF \E r \in user_roles : r.user_id = user_id
    THEN (CHOOSE r \in user_roles : r.user_id = user_id).role
    ELSE NullText

\* SELECT role FROM profiles WHERE id = ...
ProfileRoleOf(user_id) ==
    IF \E p \in profiles : p.id = user_id
    THEN (CHOOSE p \in profiles : p.id = user_id).role
    ELSE NullText

\* The role the API handlers resolve for the caller: the role column of the
\* caller's profile row first, user_roles only when the profile gives none.
ResolvedRole(user_id) ==
    IF ProfileRoleOf(user_id) # NullText THEN ProfileRoleOf(user_id) ELSE RoleOf(user_id)

\* The roles that requests of the model ask for.
RoleInputs == {"super_admin", "farm_worker"}

\* ------------------------------------------------------------ PIN change
\* The response to a request that changes a PIN: the request's current PIN
\* next to the new one.
PinChangeResponse(op, actor, target, current, pin, result) ==
    [op |-> op, actor |-> actor, phone |-> NullText, pin |-> pin, target |-> target,
     result |-> result, id |-> NullText, approved |-> FALSE, count |-> 0, current |-> current]

\* change_own_pin(_current_pin, _new_pin) for the session's user: the error it
\* returns, or "ok".
ChangeOwnPinResult(actor, current, pin) ==
    IF ~IsSixDigits(pin) THEN "ValidationError"
    ELSE IF \A p \in profiles : ~(p.id = actor /\ PinMatches(current, p.pin_hash)) THEN "IncorrectPin"
    ELSE "ok"

change_own_pin(actor, current, pin) ==
    /\ IF ChangeOwnPinResult(actor, current, pin) = "ok"
       THEN \E salt \in Salts :
               profiles' = {IF p.id = actor THEN [p EXCEPT !.pin_hash = crypt(pin, salt)] ELSE p
                            : p \in profiles}
       ELSE UNCHANGED profiles
    /\ last' = PinChangeResponse("change_own_pin", actor, actor, current, pin,
                                 ChangeOwnPinResult(actor, current, pin))
    /\ UNCHANGED <<now, auth_users, user_roles, customers, customer_accounts,
                   auth_attempts, customer_auth_attempts>>

ChangeOwnPin ==
    \E actor \in Sessions, current \in Pins, pin \in PinInputs : change_own_pin(actor, current, pin) /\ UNCHANGED requests

\* update_customer_pin(_customer_id, _current_pin, _new_pin): the error it
\* returns, or "ok".  It has no test of _new_pin.
UpdateCustomerPinResult(customer_id, current) ==
    IF \A a \in customer_accounts : ~(a.customer_id = customer_id /\ PinMatches(current, a.pin_hash))
    THEN "IncorrectPin"
    ELSE "ok"

\* The accounts after update_customer_pin.
UpdateCustomerPinRows(customer_id, current, pin, salt) ==
    IF UpdateCustomerPinResult(customer_id, current) = "ok"
    THEN {IF a.customer_id = customer_id THEN [a EXCEPT !.pin_hash = crypt(pin, salt)] ELSE a
          : a \in customer_accounts}
    ELSE customer_accounts

\* The function called from the customer's client (CustomerAuthProvider.changePin).
update_customer_pin(customer_id, current, pin) ==
    /\ \E salt \in Salts : customer_accounts' = UpdateCustomerPinRows(customer_id, current, pin, salt)
    /\ last' = PinChangeResponse("update_customer_pin", NullText, customer_id, current, pin,
                                 UpdateCustomerPinResult(customer_id, current))
    /\ UNCHANGED <<now, auth_users, profiles, user_roles, customers, auth_attempts, customer_auth_attempts>>

UpdateCustomerPin ==
    \E customer_id \in CustomerIds, current \in Pins, pin \in PinInputs :
        update_customer_pin(customer_id, current, pin) /\ UNCHANGED requests

\* The handler of action 'change-pin' (customer-auth.ts 235-268): the format of
\* the new PIN, then update_customer_pin, then the password of the linked
\* identity, whose update is not awaited for an error.  The handler goes on to
\* the password whatever the function answered.  fault: the collaborator fails.
customer_change_pin(customer_id, current, pin, fault) ==
    IF ~IsSixDigits(pin)
    THEN /\ last' = PinChangeResponse("customer_change_pin", NullText, customer_id, current, pin, "ValidationError")
         /\ UNCHANGED <<now, auth_users, profiles, user_roles, customers, customer_accounts,
                        auth_attempts, customer_auth_attempts>>
    ELSE /\ \E salt \in Salts : customer_accounts' = UpdateCustomerPinRows(customer_id, current, pin, salt)
         /\ auth_users' = IF fault THEN auth_users
                          ELSE {IF \E a \in customer_accounts : a.customer_id = customer_id /\ a.user_id = u.id
                                THEN [u EXCEPT !.password = pin] ELSE u : u \in auth_users}
         /\ last' = PinChangeResponse("customer_change_pin", NullText, customer_id, current, pin,
                                      UpdateCustomerPinResult(customer_id, current))
         /\ UNCHANGED <<now, profiles, user_roles, customers, auth_attempts, customer_auth_attempts>>

CustomerChangePin ==
    \E customer_id \in CustomerIds, current \in Pins, pin \in PinInputs, fault \in BOOLEAN :
        customer_change_pin(customer_id, current, pin, fault) /\ UNCHANGED requests

\* update_pin_only(_user_id, _pin): SECURITY DEFINER, no test of the caller
\* and none of _pin; every signed-in client can call it for every _user_id.
update_pin_only(actor, user_id, pin) ==
    /\ \E salt \in Salts :
          profiles' = {IF p.id = user_id THEN [p EXCEPT !.pin_hash = crypt(pin, salt)] ELSE p
                       : p \in profiles}
    /\ last' = PinChangeResponse("update_pin_only", actor, user_id, <<>>, pin, "ok")
    /\ UNCHANGED <<now, auth_users, user_roles, customers, customer_accounts,
                   auth_attempts, customer_auth_attempts>>

UpdatePinOnly ==
    \E actor \in Sessions, user_id \in UserIds, pin \in PinInputs : update_pin_only(actor, user_id, pin) /\ UNCHANGED requests

\* --------------------------------------------------- row-level security
\* Policy "Managers and admins have full access to customer_accounts": a
\* manager or super admin updates the approval columns of an account; for any
\* other caller the statement changes nothing.  approval_status is checked to
\* be one of pending, approved, rejected; nothing ties it to is_approved.
is_manager_or_admin(user_id) == has_role(user_id, "super_admin") \/ has_role(user_id, "manager")

set_customer_approval(actor, customer_id, is_approved, approval_status) ==
    /\ \E c \in customer_accounts : c.customer_id = customer_id
    /\ IF is_manager_or_admin(actor)
       THEN /\ customer_accounts' = {IF c.customer_id = customer_id
                                     THEN [c EXCEPT !.is_approved = is_approved, !.approval_status = approval_status]
                                     ELSE c : c \in customer_accounts}
            /\ last' = Response("set_customer_approval", actor, NullText, <<>>, customer_id, "ok",
                                approval_status, is_approved, 0)
       ELSE /\ UNCHANGED customer_accounts
            /\ last' = Response("set_customer_approval", actor, NullText, <<>>, customer_id, "NoRows",
                                approval_status, is_approved, 0)
    /\ UNCHANGED <<now, auth_users, profiles, user_roles, customers, auth_attempts, customer_auth_attempts>>

SetCustomerApproval ==
    \E actor \in Sessions, customer_id \in CustomerIds, is_approved \in BOOLEAN,
       approval_status \in {"pending", "approved", "rejected"} :
        set_customer_approval(actor, customer_id, is_approved, approval_status) /\ UNCHANGED requests

\* The sessions of customer identities: the identities customer accounts are
\* linked to.
CustomerSessions == {u \in Sessions : \E a \in customer_accounts : a.user_id = u}

\* Policy "Customers can read own customer data" / "... update own customer
\* data": EXISTS (SELECT 1 FROM customer_accounts ca WHERE ca.customer_id =
\* customers.id AND ca.user_id = auth.uid()).
OwnCustomer(user_id, c) ==
    \E a \in customer_accounts : a.customer_id = c.id /\ a.user_id = user_id

\* The policies FOR SELECT on customers, OR-ed as row-level security does.
customers_select(user_id, c) ==
    \/ is_manager_or_admin(user_id)
    \/ has_role(user_id, "accountant")
    \/ has_role(user_id, "delivery_staff")
    \/ has_role(user_id, "auditor")
    \/ OwnCustomer(user_id, c)

\* The policies FOR UPDATE on customers.
customers_update(user_id, c) == is_manager_or_admin(user_id) \/ OwnCustomer(user_id, c)

\* Policy "Users can update their own profile": FOR UPDATE USING (auth.uid() = id),
\* with no restriction on the columns.  The update of the role and is_active
\* columns of the caller's own row.
update_own_profile(actor, role, is_active) ==
    /\ \E p \in profiles : p.id = actor
    /\ profiles' = {IF p.id = actor THEN [p EXCEPT !.role = role, !.is_active = is_active] ELSE p
                    : p \in profiles}
    /\ last' = Response("update_own_profile", actor, NullText, <<>>, actor, "ok", role, is_active, 0)
    /\ UNCHANGED <<now, auth_users, user_roles, customers, customer_accounts,
                   auth_attempts, customer_auth_attempts>>

UpdateOwnProfile ==
    \E actor \in Sessions, role \in RoleInputs, is_active \in BOOLEAN :
        update_own_profile(actor, role, is_active) /\ UNCHANGED requests

\* Policy "Admins can manage roles": FOR ALL USING (has_role(auth.uid(), 'super_admin')).
\* A direct update of a user_roles row; for any other caller no row is visible
\* and the statement changes nothing.
manage_roles(actor, target, role) ==
    /\ \E r \in user_roles : r.user_id = target
    /\ IF has_role(actor, "super_admin")
       THEN /\ user_roles' = {IF r.user_id = target THEN [r EXCEPT !.role = role] ELSE r : r \in user_roles}
            /\ last' = Response("manage_roles", actor, NullText, <<>>, target, "ok", role, FALSE, 0)
       ELSE /\ UNCHANGED user_roles
            /\ last' = Response("manage_roles", actor, NullText, <<>>, target, "NoRows", role, FALSE, 0)
    /\ UNCHANGED <<now, auth_users, profiles, customers, customer_accounts,
                   auth_attempts, customer_auth_attempts>>

ManageRoles == \E actor \in Sessions, target \in UserIds, role \in RoleInputs : manage_roles(actor, target, role) /\ UNCHANGED requests

\* The schema scripts of the repository that create policies on the two
\* lockout tables.  The database is set up by running consolidated_schema.sql;
\* the policies script and complete_database_fix.sql are run on top of it.
SchemaScripts == {"consolidated_schema", "rls_policies", "complete_database_fix"}

\* The USING expressions of the policies on auth_attempts and
\* customer_auth_attempts after each script.  All of them are FOR ALL, name no
\* role and so apply to anon and authenticated alike:
\*   consolidated_schema.sql:   "No direct access to ..." USING (false)
\*   the policies script:       adds "Anyone can read ..." and "Anyone can
\*                              manage ..." USING (true) under other names
\*   complete_database_fix.sql: drops every policy of the schema and creates
\*                              "Enable all for ..." USING (true) WITH CHECK (true)
LedgerPolicies(script) ==
    CASE script = "consolidated_schema" -> {FALSE}
      [] script = "rls_policies" -> {FALSE, TRUE}
      [] script = "complete_database_fix" -> {TRUE}

\* A statement a client sends straight to one of the lockout tables,
\* WHERE phone = ...  Row-level security is enabled on both tables; a row
\* passes when one of the permissive policies admits it, and the statement
\* reaches the rows that pass.  count is the number of rows the statement
\* returned or affected.
direct_ledger_access(script, session, table, cmd, phone) ==
    LET rows == IF table = "auth_attempts" THEN auth_attempts ELSE customer_auth_attempts
        hit == IF \E using \in LedgerPolicies(script) : using THEN AttemptRow(rows, phone) ELSE {}
        after == CASE cmd = "delete" -> rows \ hit
                   [] cmd = "update" -> {IF a \in hit
                                         THEN [a EXCEPT !.failed_count = 0, !.locked_until = NullTime]
                                         ELSE a : a \in rows}
                   [] OTHER -> rows
    IN  /\ auth_attempts' = IF table = "auth_attempts" THEN after ELSE auth_attempts
        /\ customer_auth_attempts' = IF table = "auth_attempts" THEN customer_auth_attempts ELSE after
        /\ last' = Response("direct_ledger_access", session, phone, <<>>, script, cmd, table, FALSE,
                            Cardinality(hit))
        /\ UNCHANGED <<now, auth_users, profiles, user_roles, customers, customer_accounts>>

\* The client is signed in as some identity, or not at all (anon).
DirectLedgerAccess ==
    \E script \in SchemaScripts, session \in Sessions \cup {NullText},
       table \in {"auth_attempts", "customer_auth_attempts"},
       cmd \in {"select", "update", "delete"}, phone \in Phones :
        direct_ledger_access(script, session, table, cmd, phone) /\ UNCHANGED requests

\* ------------------------------------------------ administrative functions
\* admin_create_staff_user (migration 20260126201709): the error it returns,
\* or "ok".  The statements fail, and the function with them, when the phone
\* is another profile's (profiles.phone is UNIQUE) or when _user_id is not an
\* identity of the hosted auth store (the foreign keys of both tables).
CreateStaffResult(actor, target, phone, role, pin) ==
    IF ~has_role(actor, "super_admin") THEN "Unauthorized"
    ELSE IF ~IsSixDigits(pin) THEN "ValidationError"
    ELSE IF \E p \in profiles : p.phone = phone /\ p.id # target THEN "ConstraintViolation"
    ELSE IF \A u \in auth_users : u.id # target THEN "ConstraintViolation"
    ELSE "ok"

admin_create_staff_user(actor, target, phone, role, pin) ==
    /\ IF CreateStaffResult(actor, target, phone, role, pin) = "ok"
       THEN \E salt \in Salts :
               /\ profiles' = {p \in profiles : p.id # target}
                                 \cup {[id |-> target, phone |-> phone, pin_hash |-> crypt(pin, salt),
                                        role |-> role, is_active |-> TRUE]}
               /\ user_roles' = {r \in user_roles : r.user_id # target}
                                   \cup {[user_id |-> target, role |-> role]}
       ELSE UNCHANGED <<profiles, user_roles>>
    /\ last' = Response("admin_create_staff_user", actor, phone, pin, target,
                        CreateStaffResult(actor, target, phone, role, pin), role, FALSE, 0)
    /\ UNCHANGED <<now, auth_users, customers, customer_accounts, auth_attempts, customer_auth_attempts>>

\* The PINs that the requests to provision and to reactivate carry.
ProvisionPins == {PinA, PinShort}

AdminCreateStaffUser ==
    \E actor \in Sessions, target \in UserIds, phone \in Phones, role \in RoleInputs, pin \in ProvisionPins :
        admin_create_staff_user(actor, target, phone, role, pin) /\ UNCHANGED requests

\* admin_reactivate_user of the user-deletion plan: the error it returns, or "ok".
ReactivateResult(actor, target, role, pin) ==
    IF ~has_role(actor, "super_admin") THEN "Unauthorized"
    ELSE IF ~IsSixDigits(pin) THEN "ValidationError"
    ELSE IF \A u \in auth_users : u.id # target THEN "ConstraintViolation"
    ELSE "ok"

admin_reactivate_user(actor, target, role, pin) ==
    /\ IF ReactivateResult(actor, target, role, pin) = "ok"
       THEN \E salt \in Salts :
               /\ profiles' = {IF p.id = target
                               THEN [p EXCEPT !.role = role, !.is_active = TRUE, !.pin_hash = crypt(pin, salt)]
                               ELSE p : p \in profiles}
               /\ user_roles' = {r \in user_roles : r.user_id # target}
                                   \cup {[user_id |-> target, role |-> role]}
       ELSE UNCHANGED <<profiles, user_roles>>
    /\ last' = Response("admin_reactivate_user", actor, NullText, pin, target,
                        ReactivateResult(actor, target, role, pin), role, FALSE, 0)
    /\ UNCHANGED <<now, auth_users, customers, customer_accounts, auth_attempts, customer_auth_attempts>>

AdminReactivateUser ==
    \E actor \in Sessions, target \in UserIds, role \in RoleInputs, pin \in ProvisionPins :
        admin_reactivate_user(actor, target, role, pin) /\ UNCHANGED requests

\* admin_update_user_status (migration 20260126201709): the error it returns,
\* or "ok".
UpdateStatusResult(actor, target, is_active) ==
    IF ~has_role(actor, "super_admin") THEN "Unauthorized"
    ELSE IF target = actor /\ ~is_active THEN "CannotDeactivateSelf"
    ELSE IF RoleOf(target) = "super_admin" /\ ~is_active THEN "CannotDeactivateSuperAdmin"
    ELSE IF \A p \in profiles : p.id # target THEN "UserNotFound"
    ELSE "ok"

admin_update_user_status(actor, target, is_active) ==
    /\ IF UpdateStatusResult(actor, target, is_active) = "ok"
       THEN profiles' = {IF p.id = target THEN [p EXCEPT !.is_active = is_active] ELSE p : p \in profiles}
       ELSE UNCHANGED profiles
    /\ last' = Response("admin_update_user_status", actor, NullText, <<>>, target,
                        UpdateStatusResult(actor, target, is_active), NullText, is_active, 0)
    /\ UNCHANGED <<now, auth_users, user_roles, customers, customer_accounts,
                   auth_attempts, customer_auth_attempts>>

AdminUpdateUserStatus ==
    \E actor \in Sessions, target \in UserIds, is_active \in BOOLEAN :
        admin_update_user_status(actor, target, is_active) /\ UNCHANGED requests

\* admin_reset_user_pin (migration 20260126201709): the error it returns, or "ok".
ResetPinResult(actor, target, pin) ==
    IF ~has_role(actor, "super_admin") THEN "Unauthorized"
    ELSE IF ~IsSixDigits(pin) THEN "ValidationError"
    ELSE IF RoleOf(target) = "super_admin" /\ target # actor THEN "CannotResetSuperAdmin"
    ELSE IF \A p \in profiles : p.id # target THEN "UserNotFound"
    ELSE "ok"

admin_reset_user_pin(actor, target, pin) ==
    /\ IF ResetPinResult(actor, target, pin) = "ok"
       THEN \E salt \in Salts :
               profiles' = {IF p.id = target THEN [p EXCEPT !.pin_hash = crypt(pin, salt)] ELSE p
                            : p \in profiles}
       ELSE UNCHANGED profiles
    /\ last' = Response("admin_reset_user_pin", actor, NullText, pin, target,
                        ResetPinResult(actor, target, pin), NullText, FALSE, 0)
    /\ UNCHANGED <<now, auth_users, user_roles, customers, customer_accounts,
                   auth_attempts, customer_auth_attempts>>

AdminResetUserPin ==
    \E actor \in Sessions, target \in UserIds, pin \in PinInputs : admin_reset_user_pin(actor, target, pin) /\ UNCHANGED requests

\* ------------------------------------------------------------ delete-user
\* auth.admin.deleteUser(id): the row of auth.users goes, and with it, by
\* ON DELETE CASCADE, the rows of profiles, user_roles and customer_accounts
\* that reference it.
DeleteAuthUser(db, id) ==
    [auth_users |-> {u \in db.auth_users : u.id # id},
     profiles |-> {p \in db.profiles : p.id # id},
     user_roles |-> {r \in db.user_roles : r.user_id # id},
     customer_accounts |-> {c \in db.customer_accounts : c.user_id # id}]

\* Variant of DeleteUserResult without the check of the target's role.
DeleteUserResultAnyTarget(actor, target, fault) ==
    IF ResolvedRole(actor) # "super_admin" THEN "Forbidden"
    ELSE IF target = NullText THEN "ValidationError"
    ELSE IF target = actor THEN "CannotDeleteSelf"
    ELSE IF fault \/ \A u \in auth_users : u.id # target THEN "DeleteFailed"
    ELSE "ok"

\* The single-delete path of api/delete-user.ts: the response, in the order of
\* the handler's checks.  fault: the collaborator fails the deletion.
DeleteUserResult(actor, target, fault) ==
    IF ResolvedRole(actor) # "super_admin" THEN "Forbidden"
    ELSE IF target = NullText THEN "ValidationError"
    ELSE IF target = actor THEN "CannotDeleteSelf"
    ELSE IF RoleOf(target) = "super_admin" THEN "CannotDeleteSuperAdmin"
    ELSE IF fault \/ \A u \in auth_users : u.id # target THEN "DeleteFailed"
    ELSE "ok"

delete_user(actor, target, fault) ==
    /\ LET d == IF DeleteUserResult(actor, target, fault) = "ok" THEN DeleteAuthUser(Db, target) ELSE Db IN
          /\ auth_users' = d.auth_users
          /\ profiles' = d.profiles
          /\ user_roles' = d.user_roles
          /\ customer_accounts' = d.customer_accounts
    /\ last' = Response("delete_user", actor, NullText, <<>>, target,
                        DeleteUserResult(actor, target, fault), NullText, FALSE, 0)
    /\ UNCHANGED <<now, customers, auth_attempts, customer_auth_attempts>>

DeleteUser ==
    \E actor \in Sessions, target \in UserIds \cup {NullText}, fault \in BOOLEAN :
        delete_user(actor, target, fault) /\ UNCHANGED requests

\* admin_delete_user(_target_user_id, _permanent) of the user-deletion plan.
AdminDeleteResult(actor, target) ==
    IF ~has_role(actor, "super_admin") THEN "Unauthorized"
    ELSE IF target = actor THEN "CannotDeleteSelf"
    ELSE IF RoleOf(target) = "super_admin" THEN "CannotDeleteSuperAdmin"
    ELSE "ok"

admin_delete_user(actor, target, permanent) ==
    /\ IF AdminDeleteResult(actor, target) = "ok"
       THEN /\ user_roles' = {r \in user_roles : r.user_id # target}
            /\ profiles' = IF permanent
                           THEN {p \in profiles : p.id # target}
                           ELSE {IF p.id = target THEN [p EXCEPT !.is_active = FALSE, !.pin_hash = NullHash]
                                 ELSE p : p \in profiles}
       ELSE UNCHANGED <<user_roles, profiles>>
    /\ last' = Response("admin_delete_user", actor, NullText, <<>>, target,
                        AdminDeleteResult(actor, target), NullText, permanent, 0)
    /\ UNCHANGED <<now, auth_users, customers, customer_accounts, auth_attempts, customer_auth_attempts>>

AdminDeleteUser ==
    \E actor \in Sessions, target \in UserIds, permanent \in BOOLEAN :
        admin_delete_user(actor, target, permanent) /\ UNCHANGED requests

\* check_phone_availability(_phone) of the user-deletion plan: it reads the
\* profiles table only.
PhoneAvailability(phone) ==
    IF \A p \in profiles : p.phone # phone THEN "available"
    ELSE IF \E p \in profiles : p.phone = phone /\ ~p.is_active THEN "reactivatable"
    ELSE "in_use"

check_phone_availability(phone) ==
    /\ last' = Response("check_phone_availability", NullText, phone, <<>>, NullText,
                        PhoneAvailability(phone), NullText, FALSE, 0)
    /\ UNCHANGED <<now, auth_users, profiles, user_roles, customers, customer_accounts,
                   auth_attempts, customer_auth_attempts>>

CheckPhoneAvailability == \E phone \in Phones : check_phone_availability(phone) /\ UNCHANGED requests

\* The identities find-and-cleanup-orphaned takes for orphans
\* (api/delete-user.ts 122-127): an address at the dairy's domain, which the
\* staff and the customer addresses both are, no profiles row with the
\* identity's id, and not the caller.
OrphanedUsers(actor) ==
    {u \in auth_users : /\ u.email.kind \in {"staff", "customer"}
                        /\ \A p \in profiles : p.id # u.id
                        /\ u.id # actor}

\* The loop both cleanup actions run over their list of ids: deleteUser for
\* each, the failures collected in the results, then 200.  failed: the ids
\* whose deletion the collaborator fails.  count is deleted_count.
delete_orphans(op, actor, ids, failed) ==
    LET refused == ResolvedRole(actor) # "super_admin"
        deleted == IF refused THEN {} ELSE {u.id : u \in auth_users} \cap (ids \ failed)
    IN  /\ auth_users' = {u \in auth_users : u.id \notin deleted}
        /\ profiles' = {p \in profiles : p.id \notin deleted}
        /\ user_roles' = {r \in user_roles : r.user_id \notin deleted}
        /\ customer_accounts' = {c \in customer_accounts : c.user_id \notin deleted}
        /\ last' = Response(op, actor, NullText, <<>>, NullText,
                            IF refused THEN "Forbidden" ELSE "ok", NullText, FALSE, Cardinality(deleted))
        /\ UNCHANGED <<now, customers, auth_attempts, customer_auth_attempts>>

\* action 'find-and-cleanup-orphaned' (api/delete-user.ts 103-178).
find_and_cleanup_orphaned(actor, failed) ==
    delete_orphans("find_and_cleanup_orphaned", actor, {u.id : u \in OrphanedUsers(actor)}, failed)

FindAndCleanupOrphaned ==
    \E actor \in Sessions, failed \in SUBSET UserIds :
        find_and_cleanup_orphaned(actor, failed) /\ UNCHANGED requests

\* action 'cleanup-orphaned' (api/delete-user.ts 180-219): the ids are the
\* userIds of the request body.
cleanup_orphaned(actor, userIds, failed) == delete_orphans("cleanup_orphaned", actor, userIds, failed)

CleanupOrphaned ==
    \E actor \in Sessions, userIds \in SUBSET UserIds, failed \in SUBSET UserIds :
        cleanup_orphaned(actor, userIds, failed) /\ UNCHANGED requests

\* ------------------------------------------------------------ create-user
\* The calls of the create-user handler after its checks; any of them can
\* come back with an error.
CreateSteps == {"createUser", "profileUpsert", "updatePinOnly", "updateProfileWithPin",
                "roleUpsert", "verifyProfile", "deleteUser"}

CreateFaultSets == {{}} \cup {{c} : c \in CreateSteps} \cup {CreateSteps}

\* The checks of the handler before it creates anything (replit.md 145-220).
CreateUserRefusal(actor, phone, pin) ==
    IF ResolvedRole(actor) # "super_admin" THEN "Forbidden"
    ELSE IF ~IsSixDigits(pin) THEN "ValidationError"
    ELSE IF \E p \in profiles : p.phone = phone THEN "AlreadyExists"
    ELSE IF \E u \in auth_users : u.email = StaffEmail(phone) THEN "AlreadyExists"
    ELSE "none"

\* The store after the upsert of the profile, the setting of the PIN hash
\* (update_pin_only, or update_user_profile_with_pin when that failed) and the
\* upsert of the role, for the identity id that createUser and its trigger
\* have inserted into db.  The handler logs the error of each and goes on.
CreateUserWrites(db, id, phone, pin, role, salt, faults) ==
    LET upserted(p) == IF "profileUpsert" \in faults THEN p
                       ELSE [p EXCEPT !.phone = phone, !.role = role, !.is_active = TRUE]
        hashed(p) == IF "updatePinOnly" \notin faults THEN [p EXCEPT !.pin_hash = crypt(pin, salt)]
                     ELSE IF "updateProfileWithPin" \notin faults
                     THEN [p EXCEPT !.phone = phone, !.role = role, !.is_active = TRUE,
                                    !.pin_hash = crypt(pin, salt)]
                     ELSE p
    IN [db EXCEPT !.profiles = {IF p.id = id THEN hashed(upserted(p)) ELSE p : p \in @},
                  !.user_roles = IF "roleUpsert" \in faults THEN @
                                 ELSE {r \in @ : r.user_id # id} \cup {[user_id |-> id, role |-> role]}]

\* The create-user handler (replit.md 222-326).
create_staff_user(actor, phone, pin, role, faults) ==
    LET email == StaffEmail(phone)
        refusal == CreateUserRefusal(actor, phone, pin)
        created == refusal = "none" /\ CreateUserOk(Db, email, "createUser" \in faults)
        id == NewUserId(Db)
        result == IF refusal # "none" THEN refusal
                  ELSE IF ~created THEN "CreateFailed"
                  ELSE IF "verifyProfile" \in faults THEN "ProfileFailed"
                  ELSE "ok"
    IN /\ \E salt \in Salts :
             LET written == CreateUserWrites(CreateUser(Db, email, pin), id, phone, pin, role, salt, faults)
                 d == IF ~created THEN Db
                      ELSE IF "verifyProfile" \in faults /\ "deleteUser" \notin faults
                      THEN DeleteAuthUser(written, id)
                      ELSE written
             IN /\ auth_users' = d.auth_users
                /\ profiles' = d.profiles
                /\ user_roles' = d.user_roles
                /\ customer_accounts' = d.customer_accounts
       /\ last' = Response("create_user", actor, phone, pin, IF created THEN id ELSE NullText,
                           result, role, FALSE, 0)
       /\ UNCHANGED <<now, customers, auth_attempts, customer_auth_attempts>>

CreateStaffUser ==
    \E actor \in Sessions, phone \in Phones, pin \in ProvisionPins, role \in RoleInputs,
       faults \in CreateFaultSets :
        create_staff_user(actor, phone, pin, role, faults) /\ UNCHANGED requests

\* --------------------------------------------------------- initial states
\* The super admin of the installation, phone p1, PIN 123456.
AdminUser == [id |-> "u1", email |-> StaffEmail("p1"), password |-> PinA]

AdminProfile == [id |-> "u1", phone |-> "p1", pin_hash |-> crypt(PinA, 1), role |-> "super_admin", is_active |-> TRUE]

\* A staff member provisioned by the super admin, phone p2, PIN 123456.
WorkerUser == [id |-> "u2", email |-> StaffEmail("p2"), password |-> PinA]

WorkerProfile == [id |-> "u2", phone |-> "p2", pin_hash |-> crypt(PinA, 1), role |-> "farm_worker", is_active |-> TRUE]

\* A customer account on phone p2 as register_customer_account leaves it,
\* with no identity in the hosted auth store yet.
CustomerAccount(approved) ==
    [customer_id |-> "c1", phone |-> "p2", pin_hash |-> crypt(PinA, 1), is_approved |-> approved,
     approval_status |-> IF approved THEN "approved" ELSE "pending", user_id |-> NullText]

\* One super admin; one customer account waiting for approval.
InitLockout ==
    /\ now = 0
    /\ auth_users = {AdminUser}
    /\ profiles = {AdminProfile}
    /\ user_roles = {[user_id |-> "u1", role |-> "super_admin"]}
    /\ customers = {[id |-> "c1", phone |-> "p2", is_active |-> FALSE, email |-> NullText]}
    /\ customer_accounts = {CustomerAccount(FALSE)}
    /\ auth_attempts = {}
    /\ customer_auth_attempts = {}
    /\ last = NoResponse
    /\ requests = NoRequests

\* One super admin and one farm worker; no customers.
InitStaff ==
    /\ now = 0
    /\ auth_users = {AdminUser, WorkerUser}
    /\ profiles = {AdminProfile, WorkerProfile}
    /\ user_roles = {[user_id |-> "u1", role |-> "super_admin"], [user_id |-> "u2", role |-> "farm_worker"]}
    /\ customers = {}
    /\ customer_accounts = {}
    /\ auth_attempts = {}
    /\ customer_auth_attempts = {}
    /\ last = NoResponse
    /\ requests = NoRequests

\* No customer accounts yet.  Phone p1 belongs to a business customer, active
\* or not, whose optional columns are filled or NULL; phone p2 to none.  The
\* super admin's phone is a third one.
InitRegister ==
    /\ now = 0
    /\ auth_users = {[AdminUser EXCEPT !.email = StaffEmail("p0")]}
    /\ profiles = {[AdminProfile EXCEPT !.phone = "p0"]}
    /\ user_roles = {[user_id |-> "u1", role |-> "super_admin"]}
    /\ \E active \in BOOLEAN, email \in {NullText, "c1@example.com"} :
          customers = {[id |-> "c1", phone |-> "p1", is_active |-> active, email |-> email]}
    /\ customer_accounts = {}
    /\ auth_attempts = {}
    /\ customer_auth_attempts = {}
    /\ last = NoResponse
    /\ requests = NoRequests

\* The identity customer_login provisions for the customer on phone p2: the
\* rows CreateUser and its trigger insert.
CustomerUser == [id |-> "u2", email |-> CustomerEmail("p2"), password |-> PinA]

CustomerProfile == [id |-> "u2", phone |-> "p2", pin_hash |-> NullHash, role |-> "farm_worker", is_active |-> TRUE]

\* One super admin; one approved customer who has logged in once.
InitPin ==
    /\ now = 0
    /\ auth_users = {AdminUser, CustomerUser}
    /\ profiles = {AdminProfile, CustomerProfile}
    /\ user_roles = {[user_id |-> "u1", role |-> "super_admin"], [user_id |-> "u2", role |-> "farm_worker"]}
    /\ customers = {[id |-> "c1", phone |-> "p2", is_active |-> TRUE, email |-> NullText]}
    /\ customer_accounts = {[CustomerAccount(TRUE) EXCEPT !.user_id = "u2"]}
    /\ auth_attempts = {}
    /\ customer_auth_attempts = {}
    /\ last = NoResponse
    /\ requests = NoRequests

\* One super admin on phone p1; one approved customer on phone p2 who has not
\* logged in yet.
InitDrift ==
    /\ now = 0
    /\ auth_users = {AdminUser}
    /\ profiles = {AdminProfile}
    /\ user_roles = {[user_id |-> "u1", role |-> "super_admin"]}
    /\ customers = {[id |-> "c1", phone |-> "p2", is_active |-> TRUE, email |-> NullText]}
    /\ customer_accounts = {CustomerAccount(TRUE)}
    /\ auth_attempts = {}
    /\ customer_auth_attempts = {}
    /\ last = NoResponse
    /\ requests = NoRequests

\* ------------------------------------------------------- specifications
\* Both verifiers and the clock.
NextLockout ==
    \/ Tick
    \/ VerifyPin
    \/ VerifyCustomerPin
    \/ CustomerLogin

SpecLockout == InitLockout /\ [][NextLockout]_vars

\* Customer login with its reconciliation, and the approval of accounts.
NextCustomer ==
    \/ Tick
    \/ VerifyCustomerPin
    \/ CustomerLoginAnyInput
    \/ SetCustomerApproval

SpecCustomer == InitLockout /\ [][NextCustomer]_vars

\* Customer registration, followed by verification and login.
NextRegister ==
    \/ CustomerRegister
    \/ VerifyCustomerPin
    \/ CustomerLogin

SpecRegister == InitRegister /\ [][NextRegister]_vars

\* Staff verification together with activation and deactivation.
NextStaff ==
    \/ Tick
    \/ VerifyPin
    \/ VerifyPinActive
    \/ AdminUpdateUserStatus

SpecStaff == InitStaff /\ [][NextStaff]_vars

\* The administrative operations and the direct table access of a session.
NextAdmin ==
    \/ UpdateOwnProfile
    \/ ManageRoles
    \/ AdminUpdateUserStatus
    \/ AdminResetUserPin
    \/ DeleteUser
    \/ AdminDeleteUser
    \/ CheckPhoneAvailability

SpecAdmin == InitStaff /\ [][NextAdmin]_vars

\* The five administrative lifecycle operations, and the update of one's own
\* profile row.
NextLifecycle ==
    \/ UpdateOwnProfile
    \/ AdminCreateStaffUser
    \/ AdminReactivateUser
    \/ AdminUpdateUserStatus
    \/ AdminResetUserPin
    \/ DeleteUser

SpecLifecycle == InitStaff /\ [][NextLifecycle]_vars

\* The PIN changes an identity makes for itself.
NextPin ==
    \/ ChangeOwnPin
    \/ UpdateCustomerPin
    \/ CustomerChangePin
    \/ UpdatePinOnly

SpecPin == InitPin /\ [][NextPin]_vars

\* Login and what makes its two drift cases: registration and approval of
\* further customers, and the change of a PIN by the customer's client.
RegisterWellFormed == \E phone \in Phones : customer_register(phone, PinA, FALSE) /\ UNCHANGED requests

ApproveCustomer ==
    \E actor \in Sessions, customer_id \in CustomerIds :
        set_customer_approval(actor, customer_id, TRUE, "approved") /\ UNCHANGED requests

\* The customer of the initial state changes the PIN to another six-digit PIN.
ChangePinWellFormed == \E current \in Pins, pin \in Pins : update_customer_pin("c1", current, pin) /\ UNCHANGED requests

NextDrift ==
    \/ CustomerLogin
    \/ RegisterWellFormed
    \/ ApproveCustomer
    \/ ChangePinWellFormed

SpecDrift == InitDrift /\ [][NextDrift]_vars

\* Login through the API handler and through the customer's client, and the
\* change of the PIN that lets the external password drift.
NextClient ==
    \/ CustomerLogin
    \/ ClientLogin
    \/ ChangePinWellFormed

SpecClient == InitDrift /\ [][NextClient]_vars

\* Concurrent calls of verify_pin.
NextRace ==
    \/ CallVerifyPin
    \/ ReadLockout
    \/ ComparePin
    \/ RecordAttempt
    \/ TickIdle

SpecRace == InitStaff /\ [][NextRace]_vars

\* Provisioning of staff through the create-user handler, verification of
\* the provisioned PIN, and deletion.
NextProvision ==
    \/ CreateStaffUser
    \/ VerifyPin
    \/ DeleteUser

SpecProvision == InitLockout /\ [][NextProvision]_vars

\* Verifications of the super admin's phone and of the customer's phone.
VerifyAdminPhone == \E pin \in Pins : verify_pin(AdminProfile.phone, pin) /\ UNCHANGED requests

VerifyCustomerPhone ==
    \E pin \in Pins : verify_customer_pin(CustomerAccount(FALSE).phone, pin) /\ UNCHANGED requests

\* Both verifiers, the clock, and clients that address the lockout tables
\* directly.
NextLedger ==
    \/ Tick
    \/ VerifyAdminPhone
    \/ VerifyCustomerPhone
    \/ DirectLedgerAccess

SpecLedger == InitLockout /\ [][NextLedger]_vars

\* The deletions: the function that removes the internal rows of an identity,
\* the single deletion of the handler, and its two cleanup actions.
NextCleanup ==
    \/ AdminDeleteUser
    \/ DeleteUser
    \/ FindAndCleanupOrphaned
    \/ CleanupOrphaned

SpecCleanup == InitPin /\ [][NextCleanup]_vars

\* ------------------------------------------------------------ properties
\* The requests that verify a PIN, and the ledger each of them keeps.
VerifierOps == {"verify_pin", "verify_customer_pin", "customer_login"}

LedgerOf(op) == IF op = "verify_pin" THEN auth_attempts ELSE customer_auth_attempts

\* The step is one request to op for phone: every request writes its response
\* and leaves the clock alone.
RequestStep(op, phone) == now' = now /\ last'.op = op /\ last'.phone = phone

\* The phone's lockout is running in the state before the step.
LockoutRunning(op, phone) ==
    \E a \in AttemptRow(LedgerOf(op), phone) : a.locked_until # NullTime /\ a.locked_until > now

\* The PIN of the request is the PIN of a record of that phone.
PinIsCorrect(op, phone, pin) ==
    IF op = "verify_pin" THEN \E p \in profiles : p.phone = phone /\ PinMatches(pin, p.pin_hash)
    ELSE \E c \in customer_accounts : c.phone = phone /\ PinMatches(pin, c.pin_hash)

\* The responses of a request whose PIN verified.
VerifiedResults == {"Resolved", "Verified", "PendingApproval", "Session", "AuthenticationFailed"}

\* A failed verification leaves the phone's row with one failure more, and
\* with a lockout of fifteen minutes from now exactly when that makes n
\* failures or more; an attempt with the correct PIN during a lockout is
\* answered AccountLocked.
LockoutAfter(n) ==
    \A op \in VerifierOps, phone \in Phones :
        RequestStep(op, phone) =>
            /\ last'.result = "InvalidCredentials" =>
                  \E a \in AttemptRow(LedgerOf(op)', phone) :
                      /\ a.failed_count = PriorCount(LedgerOf(op), phone) + 1
                      /\ a.locked_until = IF a.failed_count >= n THEN now + LockoutMinutes ELSE NullTime
            /\ (LockoutRunning(op, phone) /\ PinIsCorrect(op, phone, last'.pin)) =>
                  last'.result = "AccountLocked"

\* C1 as stated: four consecutive failed verifications of a phone set its
\* lockout expiry to fifteen minutes after the fourth failure, and an attempt
\* inside the window is answered AccountLocked even with the correct PIN, for
\* the staff and the customer verifier alike.
C1_LockoutAfterFourFailures == [][LockoutAfter(4)]_vars

\* C1 amended: the lockout is set by the fifth consecutive failure, to fifteen
\* minutes after that failure; failures one to four set none; an attempt
\* inside the window is answered AccountLocked even with the correct PIN, for
\* the staff and the customer verifier alike.
C1_LockoutAfterFiveFailures == [][LockoutAfter(5)]_vars

\* Both ledgers hold a lockout set by a fifth failure, and the staff phone's
\* correct PIN has just been refused inside the window.
C1_Witness ==
    /\ last.op = "verify_pin" /\ last.phone = "p1" /\ last.pin = PinA
    /\ last.result = "AccountLocked" /\ last.count = 5
    /\ \E a \in auth_attempts : a.phone = "p1" /\ a.failed_count = 5 /\ a.locked_until > now
    /\ \E a \in customer_auth_attempts : a.phone = "p2" /\ a.failed_count = 5 /\ a.locked_until # NullTime

\* C2: while a phone's lockout expiry is in the future, an attempt for it is
\* answered AccountLocked whatever the PIN, no credential record is read or
\* written, and the lockout row stays as it is, so that the lockout ends
\* fifteen minutes after the failure that set it.
C2_LockedAttemptRefused ==
    [][\A op \in VerifierOps, phone \in Phones :
          LockoutRunning(op, phone) =>
              /\ AttemptRow(LedgerOf(op)', phone) = AttemptRow(LedgerOf(op), phone)
              /\ \A a \in AttemptRow(LedgerOf(op), phone) : a.locked_until <= now + LockoutMinutes
              /\ RequestStep(op, phone) =>
                    /\ last'.result = "AccountLocked"
                    /\ last'.id = NullText /\ last'.target = NullText /\ last'.approved = FALSE
                    /\ profiles' = profiles /\ customer_accounts' = customer_accounts
                    /\ auth_users' = auth_users /\ user_roles' = user_roles]_vars

\* A customer login with a wrong PIN and a staff verification have been
\* refused in the last minute of a lockout.
C2_Witness ==
    /\ last.op = "customer_login" /\ last.phone = "p2" /\ last.pin = PinB
    /\ last.result = "AccountLocked"
    /\ \E a \in customer_auth_attempts : a.phone = "p2" /\ a.locked_until = now + 1
    /\ \E a \in auth_attempts : a.locked_until # NullTime /\ a.locked_until > now

\* C3: every verification that succeeds removes the phone's lockout row,
\* whether one, two or three failures preceded it, so that a failure is
\* counted from the most recent success: the first failure after it makes the
\* count one.
C3_SuccessResetsCounter ==
    [][\A op \in VerifierOps, phone \in Phones :
          RequestStep(op, phone) =>
              /\ last'.result \in VerifiedResults => AttemptRow(LedgerOf(op)', phone) = {}
              /\ (last'.result = "InvalidCredentials" /\ AttemptRow(LedgerOf(op), phone) = {}) =>
                    \E a \in AttemptRow(LedgerOf(op)', phone) : a.failed_count = 1]_vars

\* A staff verification has succeeded after three failures and left no row,
\* and the customer ledger has been reset as well.
C3_Witness ==
    /\ last.op = "verify_pin" /\ last.result = "Resolved" /\ last.count = 3
    /\ AttemptRow(auth_attempts, last.phone) = {}
    /\ customer_auth_attempts = {}
    /\ now > 0

\* C4: a request for a phone that has no record and a request with a wrong
\* PIN for a phone that has one are answered alike: InvalidCredentials with
\* nothing else in the response, and one failure more on the phone's row.
C4_UnknownPhoneLikeWrongPin ==
    [][\A op \in VerifierOps, phone \in Phones :
          (RequestStep(op, phone) /\ ~LockoutRunning(op, phone)
                                  /\ ~PinIsCorrect(op, phone, last'.pin)) =>
              /\ last'.result = "InvalidCredentials"
              /\ last'.id = NullText /\ last'.target = NullText /\ last'.approved = FALSE
              /\ \E a \in AttemptRow(LedgerOf(op)', phone) :
                    a.failed_count = PriorCount(LedgerOf(op), phone) + 1
              /\ profiles' = profiles /\ customer_accounts' = customer_accounts]_vars

\* Each ledger holds one failure for the phone that has a record and one for
\* the phone that has none.
C4_Witness ==
    /\ \A phone \in Phones : \E a \in auth_attempts : a.phone = phone /\ a.failed_count = 1
    /\ \A phone \in Phones : \E a \in customer_auth_attempts : a.phone = phone /\ a.failed_count = 1
    /\ last.result = "InvalidCredentials"

\* C5: a verification for a phone whose profile is inactive is answered
\* AccountInactive, resolves no identity whether or not the PIN is correct, and
\* leaves the lockout ledger as it is.
C5_InactiveRefused ==
    [][\A phone \in Phones :
          (now' = now /\ last'.op \in {"verify_pin", "verify_pin_active"} /\ last'.phone = phone
                      /\ \E p \in profiles : p.phone = phone /\ ~p.is_active) =>
              /\ last'.result = "AccountInactive"
              /\ last'.id = NullText
              /\ auth_attempts' = auth_attempts]_vars

\* verify_pin has resolved the identity of a profile that is inactive.
C5_Witness ==
    /\ last.op = "verify_pin" /\ last.result = "Resolved"
    /\ \E p \in profiles : p.id = last.id /\ p.phone = last.phone /\ ~p.is_active

\* C6: a customer login is answered PendingApproval exactly when the PIN has
\* verified (well-formed request, no lockout running, PIN of the account) and
\* the account is not approved; a wrong PIN is answered InvalidCredentials
\* whatever the approval columns hold.
C6_PendingOnlyAfterPin ==
    [][\A phone \in Phones \cup {"short"} :
          RequestStep("customer_login", phone) =>
              /\ last'.result = "PendingApproval" <=>
                    /\ phone \in Phones /\ Len(last'.pin) = 6
                    /\ ~LockoutRunning("customer_login", phone)
                    /\ \E c \in customer_accounts :
                          c.phone = phone /\ PinMatches(last'.pin, c.pin_hash) /\ ~c.is_approved
              /\ (phone \in Phones /\ Len(last'.pin) = 6 /\ ~LockoutRunning("customer_login", phone)
                                   /\ ~PinIsCorrect("customer_login", phone, last'.pin)) =>
                    last'.result = "InvalidCredentials"
              /\ last'.result = "InvalidCredentials" => (last'.target = NullText /\ ~last'.approved)]_vars

\* An account that was approved and has logged in, and was rejected since, is
\* answered PendingApproval for its PIN; its approval columns disagree.
C6_Witness ==
    /\ last.op = "customer_login" /\ last.result = "PendingApproval" /\ last.pin = PinA
    /\ \E c \in customer_accounts :
          c.phone = last.phone /\ c.user_id # NullText /\ ~c.is_approved /\ c.approval_status = "approved"

\* The administrative operations, and the responses that refuse the caller.
AdminOps == {"admin_create_staff_user", "admin_update_user_status", "admin_reset_user_pin",
             "admin_reactivate_user", "delete_user", "admin_delete_user"}

Refusals == {"Forbidden", "Unauthorized"}

\* C7: an administrative operation goes past its check of the caller only for
\* a caller who holds super_admin in user_roles, whatever the role column of
\* profiles says, and user_roles changes only in requests of such a caller.
C7_AuthorizationFromUserRolesOnly ==
    [][\A actor \in UserIds :
          (now' = now /\ last'.actor = actor /\ ~has_role(actor, "super_admin")) =>
              /\ last'.op \in AdminOps => last'.result \in Refusals
              /\ user_roles' = user_roles]_vars

\* A caller who holds farm_worker in user_roles has deleted a user.
C7_Witness ==
    /\ last.op = "delete_user" /\ last.result = "ok"
    /\ has_role(last.actor, "farm_worker")
    /\ ProfileRoleOf(last.actor) = "super_admin"
    /\ \A u \in auth_users : u.id # last.target

C9_OnlySuperAdminActs ==
    [][\A actor \in UserIds :
          (now' = now /\ last'.op \in AdminOps /\ last'.actor = actor /\ ~has_role(actor, "super_admin")) =>
              /\ last'.result # "ok"
              /\ UNCHANGED <<auth_users, profiles, user_roles, customer_accounts>>]_vars

\* The farm worker, whose profile row says super_admin, has deleted the
\* identity of the former super admin; user_roles never gave the worker more
\* than farm_worker.
C9_Witness ==
    /\ last.op = "delete_user" /\ last.result = "ok" /\ last.actor = "u2" /\ last.target = "u1"
    /\ user_roles = {[user_id |-> "u2", role |-> "farm_worker"]}
    /\ \A p \in profiles : p.id # "u1"
    /\ \A u \in auth_users : u.id # "u1"

\* C10: when a permanent deletion has reported success, no row of the target
\* is left in profiles, in user_roles or in the hosted auth store, and
\* check_phone_availability for the target's phone answers available.
C10_PermanentDeleteComplete ==
    [][\A target \in UserIds :
          (/\ now' = now /\ last'.target = target /\ last'.result = "ok"
           /\ \/ last'.op = "delete_user"
              \/ last'.op = "admin_delete_user" /\ last'.approved) =>
              /\ \A p \in profiles' : p.id # target
              /\ \A r \in user_roles' : r.user_id # target
              /\ \A u \in auth_users' : u.id # target
              /\ \A p \in profiles : p.id = target => PhoneAvailability(p.phone)' = "available"]_vars

\* admin_delete_user has reported a permanent deletion, the phone is reported
\* available, and the identity is still in the hosted auth store.
C10_Witness ==
    /\ last.op = "check_phone_availability" /\ last.result = "available"
    /\ \E u \in auth_users :
          /\ u.email = StaffEmail(last.phone)
          /\ \A p \in profiles : p.id # u.id
          /\ \A r \in user_roles : r.user_id # u.id

\* C11: check_phone_availability answers from both stores, with one of four
\* classifications: available when neither store has the phone, orphaned when
\* only the hosted auth store has it, and in use (active) or reactivatable
\* (inactive) by the profile that has it; it never answers available while an
\* identity of the hosted auth store has the phone's address.
C11_AvailabilityInspectsBothStores ==
    [][\A phone \in Phones :
          RequestStep("check_phone_availability", phone) =>
              last'.result =
                  IF \E p \in profiles : p.phone = phone /\ p.is_active THEN "in_use"
                  ELSE IF \E p \in profiles : p.phone = phone THEN "reactivatable"
                  ELSE IF \E u \in auth_users : u.email.phone = phone THEN "orphaned"
                  ELSE "available"]_vars

\* The phone has been reported available while the identity that holds its
\* address in the hosted auth store can still sign in.
C11_Witness ==
    /\ last.op = "check_phone_availability" /\ last.phone = "p2" /\ last.result = "available"
    /\ SignInOk(Db, StaffEmail("p2"), PinA, FALSE)

\* C12: a registration for a phone without an account creates an account that
\* is approved exactly when an active row of customers has the phone, whatever
\* that row's optional columns hold; a pending account has no identity in the
\* hosted auth store and the request provisions none.
C12_RegisterApprovesKnownCustomer ==
    [][\A phone \in Phones :
          (RequestStep("customer_register", phone) /\ last'.result = "Registered"
                /\ \A a \in customer_accounts : a.phone # phone) =>
              \E a \in customer_accounts' :
                  /\ a.phone = phone
                  /\ a.is_approved <=> \E c \in customers : c.phone = phone /\ c.is_active
                  /\ ~a.is_approved => (a.user_id = NullText /\ auth_users' = auth_users)]_vars

\* The phone of an active business customer whose optional columns are NULL
\* has been registered: the account is pending, and it is linked to a second
\* row of customers made for the same phone.
C12_Witness ==
    /\ last.op = "customer_register" /\ last.phone = "p1" /\ last.result = "Registered" /\ ~last.approved
    /\ \E c \in customers : c.id = "c1" /\ c.phone = "p1" /\ c.is_active /\ c.email = NullText
    /\ \E a \in customer_accounts : a.phone = "p1" /\ ~a.is_approved /\ a.customer_id # "c1"

\* The requests by which an identity changes its own PIN.
PinChangeOps == {"change_own_pin", "update_customer_pin", "customer_change_pin"}

\* Every stored PIN hash, by owner.
StoredHashes ==
    {<<"staff", p.id, p.pin_hash>> : p \in profiles}
        \cup {<<"customer", a.customer_id, a.pin_hash>> : a \in customer_accounts}

\* The current PIN of the request that is answered in this step verifies
\* against the requester's stored hash.
CurrentPinVerifies ==
    IF last'.op = "change_own_pin"
    THEN \E p \in profiles : p.id = last'.actor /\ PinMatches(last'.current, p.pin_hash)
    ELSE \E a \in customer_accounts : a.customer_id = last'.target /\ PinMatches(last'.current, a.pin_hash)

\* C13: a PIN change an identity makes for itself (staff change_own_pin, the
\* customer's change-pin) replaces the stored hash only when the current PIN
\* verifies and the new PIN is exactly six digits; a correct current PIN with
\* a five-digit new PIN is answered with a validation failure; every failing
\* request leaves the stored hashes unchanged.
C13_PinChangeNeedsCurrentAndSixDigits ==
    [][(now' = now /\ last'.op \in PinChangeOps) =>
          /\ StoredHashes' # StoredHashes => CurrentPinVerifies /\ IsSixDigits(last'.pin)
          /\ CurrentPinVerifies /\ Len(last'.pin) = 5 =>
                 last'.result = "ValidationError" /\ StoredHashes' = StoredHashes
          /\ last'.result # "ok" => StoredHashes' = StoredHashes]_vars

\* The customer's client has changed the PIN to five digits: the current PIN
\* verified and update_customer_pin stored the hash of the short PIN.
C13_Witness ==
    /\ last.op = "update_customer_pin"
    /\ last.result = "ok"
    /\ last.pin = PinShort
    /\ \E a \in customer_accounts : a.customer_id = last.target /\ PinMatches(PinShort, a.pin_hash)

\* C14: the six-digit format is enforced at every entry point before a PIN is
\* hashed, the PIN-setting functions clients can call included; so every
\* stored hash is the hash of a six-digit PIN.
C14_EveryStoredPinIsSixDigits ==
    \A h \in StoredHashes :
        h[3] = NullHash \/ \E pin \in PinInputs : IsSixDigits(pin) /\ PinMatches(pin, h[3])

\* A signed-in client has set a staff PIN of five digits through update_pin_only.
C14_Witness ==
    /\ last.op = "update_pin_only"
    /\ last.pin = PinShort
    /\ \E p \in profiles : p.id = last.target /\ PinMatches(PinShort, p.pin_hash)

\* C15: a session of a customer identity reads and writes only the business
\* customer its own account is linked to, and holds no staff role, also after
\* its external identity has been provisioned by registration or by login.
C15_CustomerSessionScoped ==
    \A u \in CustomerSessions :
        /\ \A c \in customers : customers_select(u, c) \/ customers_update(u, c) => OwnCustomer(u, c)
        /\ \A role \in Roles : ~has_role(u, role)

\* Login has provisioned the customer's identity, and the trigger on
\* auth.users has given it the role farm_worker.
C15_Witness ==
    /\ last.op = "customer_login"
    /\ \E a \in customer_accounts : a.user_id \in Sessions /\ has_role(a.user_id, "farm_worker")

\* C16: an account is locked out after five failed attempts: a failed
\* verification leaves the phone's row with a lockout expiry exactly when it is
\* the fifth consecutive failure or a later one (no earlier failure sets one),
\* and the attempt that follows the fifth failure while that lockout runs is
\* refused as locked and counts nothing.
C16_FifthFailureSetsLockout ==
    [][\A op \in VerifierOps, phone \in Phones :
          RequestStep(op, phone) =>
             /\ last'.result = "InvalidCredentials" =>
                    /\ AttemptRow(LedgerOf(op)', phone) # {}
                    /\ \A a \in AttemptRow(LedgerOf(op)', phone) :
                           (a.locked_until # NullTime) <=> (a.failed_count >= 5)
             /\ (PriorCount(LedgerOf(op), phone) >= 5 /\ LockoutRunning(op, phone)) =>
                    last'.result = "AccountLocked" /\ LedgerOf(op)' = LedgerOf(op)]_vars

\* The customer verifier has just refused the phone's correct PIN as locked:
\* the row counts five failures, the fifth of which set the running lockout.
C16_Witness ==
    /\ last.op = "verify_customer_pin" /\ last.phone = "p2" /\ last.pin = PinA
    /\ last.result = "AccountLocked"
    /\ \E a \in customer_auth_attempts : a.phone = "p2" /\ a.failed_count = 5 /\ a.locked_until > now

\* The operations of the staff lifecycle.
LifecycleOps == {"admin_create_staff_user", "admin_update_user_status", "admin_reactivate_user",
                 "admin_delete_user", "delete_user"}

\* Every profile has exactly one user_roles row, with the profile's role.
RolesConsistent ==
    \A p \in profiles :
        /\ Cardinality({r \in user_roles : r.user_id = p.id}) = 1
        /\ p.role = RoleOf(p.id)

\* C17: after every lifecycle operation every staff identity that has a
\* profile row, active or inactive, has exactly one user_roles row, and the
\* role on its profile equals the role in that row: a lifecycle operation
\* that starts where this holds ends where it holds.
C17_LifecycleKeepsOneRole ==
    [][(now' = now /\ last'.op \in LifecycleOps /\ RolesConsistent) => RolesConsistent']_vars

\* A deactivation through admin_delete_user has kept the profile row and
\* removed the identity's user_roles row.
C17_Witness ==
    /\ last.op = "admin_delete_user" /\ last.result = "ok" /\ ~last.approved
    /\ \E p \in profiles : p.id = last.target /\ ~p.is_active /\ RoleOf(p.id) = NullText

\* C18: a customer login returns a session, provisions an external identity
\* or rewrites an external password only if, in the same request, no lockout
\* was running for the phone, the PIN matched the stored hash of the phone's
\* account and that account is approved; after a failed, locked or pending
\* verification nothing of the identity stores changes.
C18_ReconcileOnlyAfterVerification ==
    [][\A phone \in Phones \cup {"short"} :
          RequestStep("customer_login", phone) =>
             ((\/ last'.result = "Session"
               \/ auth_users' # auth_users
               \/ profiles' # profiles
               \/ user_roles' # user_roles
               \/ customer_accounts' # customer_accounts)
              => /\ ~LockoutRunning("customer_login", phone)
                 /\ \E c \in customer_accounts :
                        c.phone = phone /\ PinMatches(last'.pin, c.pin_hash) /\ c.is_approved)]_vars

\* A login has ended with a session for an approved account whose identity
\* it found or provisioned with the PIN as password.
C18_Witness ==
    /\ last.op = "customer_login" /\ last.result = "Session"
    /\ \E c \in customer_accounts, u \in auth_users :
          c.phone = last.phone /\ c.is_approved /\ c.user_id = u.id /\ u.password = last.pin

\* The login request answered in this step had no running lockout, a
\* well-formed PIN that matches the phone's approved account, and a
\* collaborator that carried out every call.
LoginShouldSucceed(phone) ==
    /\ RequestStep("customer_login", phone)
    /\ ~LockoutRunning("customer_login", phone)
    /\ IsSixDigits(last'.pin)
    /\ \E c \in customer_accounts : c.phone = phone /\ PinMatches(last'.pin, c.pin_hash) /\ c.is_approved
    /\ FreeIds(Db) # {}
    /\ last'.faults = {}

\* C19: if the PIN verifies, the account is approved and the collaborator
\* carries out every call, the login ends with a session, whether no external
\* identity exists for the phone (it is provisioned with the PIN as password)
\* or the external password differs from the PIN (it is set to the PIN); the
\* identity then exists with the PIN as password.
C19_LoginReconcilesDrift ==
    [][\A phone \in Phones :
          LoginShouldSucceed(phone) =>
             /\ last'.result = "Session"
             /\ \E u \in auth_users' : u.email = CustomerEmail(phone) /\ u.password = last'.pin]_vars

\* A login with the right PIN for an approved account, with every call
\* carried out, has ended without a session and without an identity: the
\* phone is also the phone of a staff profile.
C19_Witness ==
    /\ last.op = "customer_login" /\ last.result = "AuthenticationFailed"
    /\ last.approved /\ last.faults = {}
    /\ \E p \in profiles : p.phone = last.phone
    /\ \A u \in auth_users : u.email # CustomerEmail(last.phone)

DriftRepaired ==
    /\ last.op = "customer_login" /\ last.approved /\ last.faults = {}
    /\ last.calls = LoginCalls(0, 1, 2)
    /\ last.result = "Session"

\* C21: login reconciliation is idempotent.  A login that follows a login of
\* the same phone and PIN which reached the reconciliation, with no other
\* request in between, reaches it again; when the collaborator carries out
\* every call of both, the two have the same outcome; and when the first
\* ended with a session, the second leaves the external store and the link
\* of the account to its identity as they are, and with a collaborator that
\* carries out every call it ends with a session after a single sign-in, with
\* no provisioning and no password update.
C21_LoginIdempotent ==
    [][\A phone \in Phones :
          (/\ RequestStep("customer_login", phone)
           /\ last.op = "customer_login" /\ last.phone = phone /\ last.pin = last'.pin
           /\ last.approved) =>
             /\ last'.approved
             /\ (last.faults = {} /\ last'.faults = {}) => last'.result = last.result
             /\ last.result = "Session" =>
                    /\ Db' = Db
                    /\ last'.faults = {} =>
                           last'.result = "Session" /\ last'.calls = LoginCalls(0, 0, 1)]_vars

\* The second of two successive logins of one phone and PIN: the first had
\* provisioned the identity, the second found it and signed in at once.
C21_Witness ==
    /\ last.op = "customer_login" /\ last.approved /\ last.faults = {}
    /\ last.result = "Session" /\ last.calls = LoginCalls(0, 0, 1)
    /\ \E c \in customer_accounts, u \in auth_users :
          c.phone = last.phone /\ c.user_id = u.id /\ u.email = CustomerEmail(last.phone)

\* The two ways a customer logs in.
LoginOps == {"customer_login", "client_login"}

\* C22: when the PIN verified and the account is approved but no session
\* could be established, login returns a failure that is not
\* InvalidCredentials; and it reports success only with a session: an
\* identity of the phone exists with the PIN as password, and the client
\* holds a session of it.
C22_NoSuccessWithoutSession ==
    [][\A phone \in Phones, op \in LoginOps :
          (RequestStep(op, phone) /\ last'.approved) =>
             /\ last'.result \in {"Session", "Success", "AuthenticationFailed", "LoginFailed"}
             /\ last'.result \in {"Session", "Success"} =>
                    /\ \E u \in auth_users' : u.email = CustomerEmail(phone) /\ u.password = last'.pin
                    /\ op = "client_login" => last'.id # NullText]_vars

\* The client has reported success for a login whose sign-in failed and
\* whose sign-up returned no session: the identity's password is not the PIN.
C22_Witness ==
    /\ last.op = "client_login" /\ last.result = "Success" /\ last.id = NullText
    /\ \E u \in auth_users : u.email = CustomerEmail(last.phone) /\ u.password # last.pin

\* Request r takes the step from position from to position to.
RequestMoves(r, from, to) == requests[r].pc = from /\ requests'[r].pc = to

\* C23: concurrent failed attempts for one phone are never under-counted:
\* under every interleaving, each request that reaches the recording of its
\* failure leaves the phone's counter one higher than the recording found
\* it, also when no row existed, so that k such requests raise it by k.
C23_FailuresNotUnderCounted ==
    [][\A r \in RequestIds :
          (RequestMoves(r, "record", "done") /\ requests[r].user_id = NullText) =>
             \E a \in AttemptRow(auth_attempts', requests[r].phone) :
                 a.failed_count = PriorCount(auth_attempts, requests[r].phone) + 1]_vars

\* Two failed requests ran concurrently with no row beforehand: both read
\* the ledger before either wrote, and the counter stands at two.
C23_Witness ==
    /\ \A r \in RequestIds :
          /\ requests[r].pc = "done" /\ requests[r].user_id = NullText
          /\ requests[r].phone = "p1" /\ requests[r].failed_count = 0
    /\ last.result = "InvalidCredentials"
    /\ \E a \in auth_attempts : a.phone = "p1" /\ a.failed_count = 2

\* C24: the lockout check and what follows it are atomic per phone: while a
\* lockout of the phone is running, no request for the phone compares a PIN,
\* returns a resolved identity or deletes the lockout row, under every
\* interleaving, a request that read the row before the lockout was set
\* included.
C24_LockoutCheckAtomic ==
    [][\A r \in RequestIds :
          IsLocked(auth_attempts, requests[r].phone) =>
             /\ ~RequestMoves(r, "verify", "record")
             /\ ~(RequestMoves(r, "record", "done") /\ requests[r].user_id # NullText)]_vars

\* A request that read the ledger at four failures has returned the identity
\* and deleted the row, after the other request's fifth failure had set the
\* lockout.
C24_Witness ==
    /\ last.result = "Resolved" /\ last.count = 5
    /\ \E r \in RequestIds :
          requests[r].pc = "done" /\ requests[r].user_id # NullText /\ requests[r].failed_count = 4
    /\ \E r \in RequestIds :
          requests[r].pc = "done" /\ requests[r].user_id = NullText /\ requests[r].failed_count = 4
    /\ auth_attempts = {}

\* The step is a deactivation that reports success: admin_update_user_status
\* with _is_active false, or the soft delete of admin_delete_user.
DeactivationStep ==
    /\ now' = now
    /\ last'.op \in {"admin_update_user_status", "admin_delete_user"}
    /\ last'.result = "ok" /\ ~last'.approved

\* C25: deactivating an active identity keeps its profile row, with
\* is_active false and the PIN hash cleared, and keeps its role in
\* user_roles; and no verification resolves to an identity that is inactive.
C25_DeactivationClearsPin ==
    [][/\ DeactivationStep =>
             /\ \E p \in profiles' : p.id = last'.target /\ ~p.is_active /\ p.pin_hash = NullHash
             /\ {r \in user_roles' : r.user_id = last'.target} = {r \in user_roles : r.user_id = last'.target}
             /\ \E r \in user_roles' : r.user_id = last'.target
       /\ (now' = now /\ last'.op \in {"verify_pin", "verify_pin_active"} /\ last'.result = "Resolved") =>
             \A p \in profiles : p.id = last'.id => p.is_active]_vars

\* admin_update_user_status has deactivated an identity and left its PIN
\* hash in place: the former PIN still matches the row.
C25_Witness ==
    /\ last.op = "admin_update_user_status" /\ last.result = "ok" /\ ~last.approved
    /\ \E p \in profiles : p.id = last.target /\ ~p.is_active /\ PinMatches(PinA, p.pin_hash)

\* C26: create-user never succeeds partially.  It reports success only if
\* the new identity is in the hosted auth store for the phone's address, has
\* a profile with the phone and a PIN hash that verifies the given PIN, and
\* has one user_roles row, with the requested role; when it reports a failure
\* it leaves no identity behind that was not there before.
C26_CreateUserAllOrNothing ==
    [][(now' = now /\ last'.op = "create_user") =>
          IF last'.result = "ok"
          THEN \E u \in auth_users' :
                  /\ u.id = last'.target /\ u.email = StaffEmail(last'.phone)
                  /\ \E p \in profiles' :
                        p.id = u.id /\ p.phone = last'.phone /\ PinMatches(last'.pin, p.pin_hash)
                  /\ {r \in user_roles' : r.user_id = u.id} = {[user_id |-> u.id, role |-> last'.id]}
          ELSE auth_users' \subseteq auth_users]_vars

\* create-user has reported success for a manager-to-be whose role upsert or
\* PIN setting failed: the identity is left as the trigger made it, a farm
\* worker, or without a PIN hash.
C26_Witness ==
    /\ last.op = "create_user" /\ last.result = "ok" /\ last.id = "super_admin"
    /\ \E p \in profiles :
          /\ p.id = last.target
          /\ has_role(p.id, "farm_worker") \/ p.pin_hash = NullHash

\* A statement a client session sends to a lockout table reaches no row and
\* leaves both ledgers as they were.
LedgerClosedTo(scripts) ==
    (now' = now /\ last'.op = "direct_ledger_access" /\ last'.target \in scripts) =>
        /\ last'.count = 0
        /\ UNCHANGED <<auth_attempts, customer_auth_attempts>>

\* With the policies of consolidated_schema.sql alone the ledgers are closed.
LedgerClosedUnderConsolidatedSchema == [][LedgerClosedTo({"consolidated_schema"})]_vars

\* C27: lockout records are created, changed and deleted only by the PIN
\* verification functions: no client session of any role, and no
\* unauthenticated client, can directly read, modify or delete a row of the
\* staff or customer lockout ledger, so a locked-out caller cannot clear its
\* own lockout.
C27_LedgerOnlyThroughVerifiers == [][LedgerClosedTo(SchemaScripts)]_vars

\* An unauthenticated client has deleted the row of a phone from the staff
\* ledger of a database whose policies complete_database_fix.sql has replaced.
C27_Witness ==
    /\ last.op = "direct_ledger_access" /\ last.actor = NullText
    /\ last.result = "delete" /\ last.id = "auth_attempts" /\ last.count = 1
    /\ last.target = "complete_database_fix"
    /\ AttemptRow(auth_attempts, last.phone) = {}

\* C28: after a lockout window has expired the failure count starts afresh:
\* a single failed attempt made after expiry does not lock the phone again,
\* and a new lockout requires the same number of consecutive failures as the
\* first one did.
C28_CountStartsAfreshAfterExpiry ==
    [][\A op \in VerifierOps, phone \in Phones :
          (/\ RequestStep(op, phone)
           /\ last'.result = "InvalidCredentials"
           /\ \E a \in AttemptRow(LedgerOf(op), phone) :
                  a.locked_until # NullTime /\ a.locked_until <= now)
          => \E a \in AttemptRow(LedgerOf(op)', phone) :
                  a.failed_count = 1 /\ a.locked_until = NullTime]_vars

\* The first failed attempt after the expiry of a lockout has been made: the
\* function read the count the expired lockout had left, and the phone's row
\* now carries it plus one.
C28_Witness ==
    /\ last.op \in VerifierOps /\ last.result = "InvalidCredentials"
    /\ now >= LockoutMinutes
    /\ last.count > LockoutThreshold
    /\ \E a \in AttemptRow(LedgerOf(last.op), last.phone) :
          a.failed_count = last.count + 1 /\ a.locked_until = now + LockoutMinutes

\* C29: a customer change-pin request whose current PIN does not verify
\* changes nothing: neither the stored PIN hash nor the password of the
\* customer's external identity is modified, so the external password changes
\* only together with a successful change of the internal hash.
C29_FailedChangePinChangesNothing ==
    [][(now' = now /\ last'.op \in {"customer_change_pin", "update_customer_pin"}) =>
          /\ ~CurrentPinVerifies => (StoredHashes' = StoredHashes /\ auth_users' = auth_users)
          /\ auth_users' # auth_users =>
                \E a \in customer_accounts' :
                    a.customer_id = last'.target /\ PinMatches(last'.pin, a.pin_hash)]_vars

\* The change-pin handler has answered that the current PIN is incorrect; the
\* account's hash does not verify the new PIN, and the password of the
\* identity the account is linked to is the new PIN.
C29_Witness ==
    /\ last.op = "customer_change_pin" /\ last.result = "IncorrectPin"
    /\ \E a \in customer_accounts :
          /\ a.customer_id = last.target
          /\ ~PinMatches(last.pin, a.pin_hash)
          /\ \E u \in auth_users : u.id = a.user_id /\ u.password = last.pin

\* The identities a cleanup step has removed from the hosted auth store.
CleanedUp == {u \in auth_users : \A v \in auth_users' : v.id # u.id}

\* Every identity a step of the cleanup action op removes is not the caller,
\* does not hold super_admin, and has neither a profile nor a linked customer
\* account.
CleanupSpares(op) ==
    (now' = now /\ last'.op = op) =>
        \A u \in CleanedUp :
            /\ u.id # last'.actor
            /\ ~has_role(u.id, "super_admin")
            /\ \A p \in profiles : p.id # u.id
            /\ \A a \in customer_accounts : a.user_id # u.id

\* C30: no orphan-cleanup action (find-and-cleanup-orphaned or
\* cleanup-orphaned) ever deletes the caller's own identity, an identity
\* holding super_admin, or an external identity that still has an internal
\* record (a staff profile or a linked customer account); only external
\* identities with no internal record are removed.
C30_CleanupRemovesOnlyOrphans ==
    [][CleanupSpares("find_and_cleanup_orphaned") /\ CleanupSpares("cleanup_orphaned")]_vars

\* A cleanup request has removed the super admin who sent it.
C30_Witness ==
    /\ last.op = "cleanup_orphaned" /\ last.result = "ok" /\ last.count > 0
    /\ \A u \in auth_users : u.id # last.actor

====
